---- MODULE Spec2Model ----
(***************************************************************************)
(* Verification model of the TvConfigs validation scripts:                 *)
(*   check_dvbs_satellite_flag.py, check_ginga_flag.py,                    *)
(*   tv_multi_standard_validation.py, pid1_config_check.py.                *)
(*                                                                         *)
(* Text is a sequence of one-character strings.  In path text the single   *)
(* character "T" stands for the directory name "tvconfigs" and "r" for the *)
(* name of the project root; every other name is a run of letters.         *)
(***************************************************************************)
EXTENDS Integers, Sequences, FiniteSets, TLC

VARIABLES
    fn,             \* pure-function harness: the function applied ("none" before the call)
    arg,            \* pure-function harness: its input text
    ret,            \* pure-function harness: its result
    prog,           \* the script that runs: "dvbs", "ginga", "std", "pid1" ("none": no script)
    pc,             \* its position: "start", "loop", "done"
    tree,           \* the file tree it reads (never written)
    dedup,          \* the dedup argument of the flag checkers
    has_dvbs_null,  \* check_dvbs_and_satellite_flag: inputSource holds DVBS:NULL
    blocks,         \* the COUNTRY_TVCONFIG_MAP blocks being looped over
    idx,            \* the loop index into blocks (1-based)
    checked_count,  \* flag checkers: blocks of the target class seen so far
    failed_detail,  \* flag checkers: the (path, reason) pairs recorded so far
    notes,          \* flag checkers: the notes recorded so far
    standard,       \* run_tv_standard_check: the standard argument
    tv_sys_map,     \* run_tv_standard_check: where the system map came from, and its path
    country_xmls,   \* run_tv_standard_check: the country maps being looped over
    all_pairs,      \* run_tv_standard_check: the (country, system, path) entries read so far
    details,        \* run_tv_standard_check: the detail lines written so far
    tvmaps,         \* check_pid1_rules: the system maps found in model.ini
    cpaths,         \* check_pid1_rules: the country maps being looped over
    countries,      \* check_pid1_rules: the country codes collected so far
    ctvs_paths,     \* check_pid1_rules: the country maps that exist
    ctvs_map,       \* check_pid1_rules: country code -> TV system
    ctvs_missing,   \* check_pid1_rules: the country maps that do not exist
    problems,       \* check_pid1_rules: the violations of the row
    result,         \* the dictionary the script returns (NoResult before it returns)
    run,            \* the number of the call of the script on this tree
    first           \* the dictionary the first call returned (NoResult before it returns)

pureVars == <<fn, arg, ret>>
callVars == <<run, first>>
flagVars == <<dedup, has_dvbs_null, blocks, checked_count, failed_detail, notes>>
stdVars == <<standard, tv_sys_map, country_xmls, all_pairs, details>>
pidVars == <<tvmaps, cpaths, countries, ctvs_paths, ctvs_map, ctvs_missing, problems>>
progVars == <<prog, pc, tree, idx, result, callVars, flagVars, stdVars, pidVars>>
vars == <<fn, arg, ret, prog, pc, tree, idx, result, dedup, has_dvbs_null, blocks, checked_count,
          failed_detail, notes, standard, tv_sys_map, country_xmls, all_pairs, details, tvmaps,
          cpaths, countries, ctvs_paths, ctvs_map, ctvs_missing, problems, run, first>>

\* ------------------------------------------------------------------ bounds
MaxRefLen == 5
MaxBlocks == 2
MaxLineLen == 4
MaxTokLen == 3
MaxWalkBlocks == 2
MaxPointers == 2
MaxDocLen == 5
MaxSysLen == 4

\* ------------------------------------------------------------------ text
\* All texts over alphabet A of length at most n.
RECURSIVE TextsUpTo(_, _)
TextsUpTo(A, n) ==
    IF n = 0 THEN {<<>>}
    ELSE LET shorter == TextsUpTo(A, n - 1)
         IN  shorter \cup {Append(s, c) : s \in {t \in shorter : Len(t) = n - 1}, c \in A}

\* str.startswith
StartsWith(s, p) == Len(s) >= Len(p) /\ SubSeq(s, 1, Len(p)) = p

\* s[n:]
DropFirst(s, n) == SubSeq(s, n + 1, Len(s))

\* str.lstrip(chars)
RECURSIVE LStrip(_, _)
LStrip(s, chars) ==
    IF s # <<>> /\ Head(s) \in chars THEN LStrip(Tail(s), chars) ELSE s

\* str.rstrip(chars)
RECURSIVE RStrip(_, _)
RStrip(s, chars) ==
    IF s # <<>> /\ s[Len(s)] \in chars THEN RStrip(SubSeq(s, 1, Len(s) - 1), chars) ELSE s

\* str.strip(chars)
Strip(s, chars) == RStrip(LStrip(s, chars), chars)

\* characters str.strip() removes with no argument
Whitespace == {" ", "\t", "\n", "\r"}

\* str.split(sep) for a one-character separator: the list of fields
RECURSIVE SplitAcc(_, _, _, _)
SplitAcc(s, sep, cur, acc) ==
    IF s = <<>> THEN Append(acc, cur)
    ELSE IF Head(s) = sep THEN SplitAcc(Tail(s), sep, <<>>, Append(acc, cur))
    ELSE SplitAcc(Tail(s), sep, Append(cur, Head(s)), acc)

Split(s, sep) == SplitAcc(s, sep, <<>>, <<>>)

\* sep.join(parts)
RECURSIVE JoinWith(_, _)
JoinWith(parts, sep) ==
    IF parts = <<>> THEN <<>>
    ELSE IF Len(parts) = 1 THEN parts[1]
    ELSE parts[1] \o <<sep>> \o JoinWith(Tail(parts), sep)

\* ------------------------------------------------------------------ paths
\* os.path.join(a, b) on POSIX
OsPathJoin(a, b) ==
    IF StartsWith(b, <<"/">>) THEN b
    ELSE IF a = <<>> \/ a[Len(a)] = "/" THEN a \o b
    ELSE a \o <<"/">> \o b

\* the component loop of posixpath.normpath
RECURSIVE NormComps(_, _, _)
NormComps(comps, abs, new) ==
    IF comps = <<>> THEN new
    ELSE LET comp == Head(comps)
             rest == Tail(comps)
         IN  IF comp = <<>> \/ comp = <<".">> THEN NormComps(rest, abs, new)
             ELSE IF \/ comp # <<".", ".">>
                     \/ (~abs /\ new = <<>>)
                     \/ (new # <<>> /\ new[Len(new)] = <<".", ".">>)
                  THEN NormComps(rest, abs, Append(new, comp))
             ELSE IF new # <<>> THEN NormComps(rest, abs, SubSeq(new, 1, Len(new) - 1))
             ELSE NormComps(rest, abs, new)

\* os.path.normpath on POSIX
OsPathNormpath(path) ==
    IF path = <<>> THEN <<".">>
    ELSE LET abs    == StartsWith(path, <<"/">>)
             two    == StartsWith(path, <<"/", "/">>) /\ ~StartsWith(path, <<"/", "/", "/">>)
             joined == JoinWith(NormComps(Split(path, "/"), abs, <<>>), "/")
             out    == IF two THEN <<"/", "/">> \o joined
                       ELSE IF abs THEN <<"/">> \o joined
                       ELSE joined
         IN  IF out = <<>> THEN <<".">> ELSE out

\* (root / given).resolve() of pathlib on a tree without symbolic links
\* (realpath starts again from a single "/" on an absolute path)
PathResolve(root, given) ==
    LET p == OsPathNormpath(OsPathJoin(root, given))
    IN  IF StartsWith(p, <<"/", "/">>) THEN Tail(p) ELSE p

\* the project root every script is given (absolute, normalised by main)
Root == <<"/", "r">>

\* the logical prefix "/tvconfigs/"
TvconfigsPrefix == <<"/", "T", "/">>

\* check_dvbs_satellite_flag.py / check_ginga_flag.py: _resolve_tvconfigs_path
ResolveTvconfigsPath(root, tvconfigs_like) ==
    IF StartsWith(tvconfigs_like, TvconfigsPrefix)
    THEN OsPathNormpath(OsPathJoin(root, DropFirst(tvconfigs_like, Len(TvconfigsPrefix))))
    ELSE IF StartsWith(tvconfigs_like, <<".", "/">>) \/ StartsWith(tvconfigs_like, <<".", ".", "/">>)
    THEN OsPathNormpath(OsPathJoin(root, tvconfigs_like))
    ELSE IF StartsWith(tvconfigs_like, <<"/">>)
    THEN tvconfigs_like
    ELSE OsPathNormpath(OsPathJoin(root, tvconfigs_like))

\* check_EWBS.py: _resolve_tvconfigs_path (root_dir is absolute)
ResolveTvconfigsPathEwbs(raw0, root_dir) ==
    LET raw == Strip(raw0, Whitespace)
    IN  IF StartsWith(raw, TvconfigsPrefix)
        THEN OsPathJoin(root_dir, DropFirst(raw, Len(TvconfigsPrefix)))
        ELSE IF StartsWith(raw, <<".", "/">>) \/ StartsWith(raw, <<".", ".", "/">>)
        THEN OsPathNormpath(OsPathJoin(root_dir, raw))
        ELSE IF StartsWith(raw, <<"/">>)
        THEN raw
        ELSE OsPathNormpath(OsPathJoin(root_dir, raw))

\* characters _resolve_from_root strips from both ends of the reference
FromRootStripChars == {"\"", "'", ";", ")", " "}

\* tv_multi_standard_validation.py: _resolve_from_root
ResolveFromRoot(root, given0) ==
    LET given == Strip(Strip(given0, Whitespace), FromRootStripChars)
    IN  IF given = <<>> THEN root
        ELSE IF StartsWith(given, TvconfigsPrefix)
        THEN PathResolve(root, DropFirst(given, Len(TvconfigsPrefix)))
        ELSE IF StartsWith(given, <<"/">>)
        THEN PathResolve(root, LStrip(given, {"/"}))
        ELSE PathResolve(root, given)

\* ------------------------------------------------------------------ characters
LowerSeq == <<"a", "b", "c", "d", "e", "f", "g", "h", "i", "j", "k", "l", "m",
              "n", "o", "p", "q", "r", "s", "t", "u", "v", "w", "x", "y", "z">>
UpperSeq == <<"A", "B", "C", "D", "E", "F", "G", "H", "I", "J", "K", "L", "M",
              "N", "O", "P", "Q", "R", "S", "T", "U", "V", "W", "X", "Y", "Z">>
UpperLetters == {UpperSeq[i] : i \in DOMAIN UpperSeq}
LowerLetters == {LowerSeq[i] : i \in DOMAIN LowerSeq}
DigitChars == {"0", "1", "2", "3", "4", "5", "6", "7", "8", "9"}

\* the characters the regular expression class \w matches
WordChars == UpperLetters \cup LowerLetters \cup DigitChars \cup {"_"}

UpperChar(c) ==
    IF c \in LowerLetters THEN UpperSeq[CHOOSE i \in DOMAIN LowerSeq : LowerSeq[i] = c] ELSE c

\* str.upper
StrUpper(s) == [i \in 1..Len(s) |-> UpperChar(s[i])]

\* str.replace for one-character operands
StrReplace(s, a, b) == [i \in 1..Len(s) |-> IF s[i] = a THEN b ELSE s[i]]

\* re.split on a class of one-character separators: the fields, empty ones included
RECURSIVE SplitOnAcc(_, _, _, _)
SplitOnAcc(s, seps, cur, acc) ==
    IF s = <<>> THEN Append(acc, cur)
    ELSE IF Head(s) \in seps THEN SplitOnAcc(Tail(s), seps, <<>>, Append(acc, cur))
    ELSE SplitOnAcc(Tail(s), seps, Append(cur, Head(s)), acc)

SplitOn(s, seps) == SplitOnAcc(s, seps, <<>>, <<>>)

\* Python's None, as a text no string equals
None == <<"<None>">>

\* ------------------------------------------------------------------ country codes
\* pid1_config_check.py: NAME_TO_ALPHA2 (name -> ISO code)
NAME_TO_ALPHA2 ==
       (<<"U", "S", "A">> :> <<"U", "S">>)
    @@ (<<"M", "E", "X", "I", "C", "O">> :> <<"M", "X">>)
    @@ (<<"C", "A", "N", "A", "D", "A">> :> <<"C", "A">>)
    @@ (<<"A", "U", "S", "T", "R", "A", "L", "I", "A">> :> <<"A", "U">>)
    @@ (<<"T", "H", "A", "I", "L", "A", "N", "D">> :> <<"T", "H">>)
    @@ (<<"I", "N", "D", "O", "N", "E", "S", "I", "A">> :> <<"I", "D">>)
    @@ (<<"V", "I", "E", "T", "N", "A", "M">> :> <<"V", "N">>)
    @@ (<<"M", "A", "L", "A", "Y", "S", "I", "A">> :> <<"M", "Y">>)
    @@ (<<"P", "H", "I", "L", "I", "P", "P", "I", "N", "E", "S">> :> <<"P", "H">>)
    @@ (<<"S", "O", "U", "T", "H", "_", "K", "O", "R", "E", "A">> :> <<"K", "R">>)
    @@ (<<"I", "N", "D", "I", "A">> :> <<"I", "N">>)
    @@ (<<"S", "P", "A", "I", "N">> :> <<"E", "S">>)
    @@ (<<"F", "R", "A", "N", "C", "E">> :> <<"F", "R">>)
    @@ (<<"G", "E", "R", "M", "A", "N", "Y">> :> <<"D", "E">>)
    @@ (<<"I", "T", "A", "L", "Y">> :> <<"I", "T">>)
    @@ (<<"S", "W", "E", "D", "E", "N">> :> <<"S", "E">>)
    @@ (<<"C", "Z", "E", "C", "H">> :> <<"C", "Z">>)
    @@ (<<"U", "N", "I", "T", "E", "D", "_", "K", "I", "N", "G", "D", "O", "M">> :> <<"G", "B">>)
    @@ (<<"H", "U", "N", "G", "A", "R", "Y">> :> <<"H", "U">>)
    @@ (<<"N", "O", "R", "W", "A", "Y">> :> <<"N", "O">>)
    @@ (<<"F", "I", "N", "L", "A", "N", "D">> :> <<"F", "I">>)
    @@ (<<"B", "R", "A", "Z", "I", "L">> :> <<"B", "R">>)
    @@ (<<"C", "O", "L", "O", "M", "B", "I", "A">> :> <<"C", "O">>)
    @@ (<<"U", "R", "U", "G", "U", "A", "Y">> :> <<"U", "Y">>)
    @@ (<<"C", "H", "I", "L", "E">> :> <<"C", "L">>)
    @@ (<<"U", "N", "I", "T", "E", "D", "_", "S", "T", "A", "T", "E", "S">> :> <<"U", "S">>)
    @@ (<<"U", "K">> :> <<"G", "B">>)

\* pid1_config_check.py: EU_ALLOWED_DEFAULT
EU_ALLOWED_DEFAULT ==
    {<<"A", "T">>, <<"B", "E">>, <<"B", "G">>, <<"C", "H">>, <<"C", "Y">>, <<"C", "Z">>,
     <<"D", "E">>, <<"D", "K">>, <<"E", "E">>, <<"E", "S">>, <<"F", "I">>, <<"F", "R">>,
     <<"G", "B">>, <<"G", "R">>, <<"H", "R">>, <<"H", "U">>, <<"I", "E">>, <<"I", "S">>,
     <<"I", "T">>, <<"L", "I">>, <<"L", "T">>, <<"L", "U">>, <<"L", "V">>, <<"M", "T">>,
     <<"N", "L">>, <<"N", "O">>, <<"P", "L">>, <<"P", "T">>, <<"R", "O">>, <<"S", "E">>,
     <<"S", "I">>, <<"S", "K">>}

\* pid1_config_check.py: NON_DVB_DENYLIST_DEFAULT
NON_DVB_DENYLIST_DEFAULT ==
    {<<"B", "R">>, <<"C", "A">>, <<"C", "N">>, <<"H", "K">>, <<"J", "P">>, <<"K", "R">>, <<"M", "O">>, <<"M", "X">>, <<"U", "S">>}

\* pid1_config_check.py: the two-letter words _extract_country_codes_from_text rejects
NoiseTokens ==
    {<<"O", "N">>, <<"O", "F">>, <<"N", "O">>, <<"I", "N">>, <<"T", "V">>,
     <<"O", "S">>, <<"P", "Q">>, <<"A", "V">>, <<"E", "U">>}

\* re.fullmatch(r"[A-Z]{2}", t)
IsTwoUpper(t) == Len(t) = 2 /\ t[1] \in UpperLetters /\ t[2] \in UpperLetters

\* tok.strip().upper().replace(" ", "_")
NormToken(tok) == StrReplace(StrUpper(Strip(tok, Whitespace)), " ", "_")

\* pid1_config_check.py: _name_to_alpha2
NameToAlpha2(name) ==
    LET t == NormToken(name)
    IN  IF t \in DOMAIN NAME_TO_ALPHA2 THEN NAME_TO_ALPHA2[t] ELSE None

\* COUNTRY_TOKEN_RE.findall(text): the words of exactly two capital letters
CountryTokenFindall(text) ==
    {SubSeq(text, i, i + 1) : i \in
        {j \in 1..(Len(text) - 1) :
            /\ text[j] \in UpperLetters
            /\ text[j + 1] \in UpperLetters
            /\ (j = 1 \/ text[j - 1] \notin WordChars)
            /\ (j + 1 = Len(text) \/ text[j + 2] \notin WordChars)}}

\* pid1_config_check.py: _extract_country_codes_from_text
ExtractCountryCodesFromText(text) ==
    LET raw_tokens == SplitOn(text, {",", ";", "\r", "\n"})
        toks       == {NormToken(raw_tokens[i]) : i \in DOMAIN raw_tokens} \ {<<>>}
        mapped     == {NAME_TO_ALPHA2[t] : t \in toks \cap DOMAIN NAME_TO_ALPHA2}
        short      == {t \in toks : t \notin DOMAIN NAME_TO_ALPHA2 /\ IsTwoUpper(t) /\ t \notin NoiseTokens}
        scanned    == CountryTokenFindall(text) \ NoiseTokens
    IN  mapped \cup short \cup scanned

\* tv_multi_standard_validation.py: _norm_country_name
NormCountryName(s) == StrReplace(StrUpper(Strip(s, Whitespace)), " ", "_")

\* ------------------------------------------------------------------ XML documents
(***************************************************************************)
(* A document is a sequence of tokens [k, t, v]:                           *)
(*   k = "open"  : the start tag <t>                                       *)
(*   k = "close" : the end tag </t>                                        *)
(*   k = "elem"  : the leaf element <t>v</t>                               *)
(*   k = "text"  : character data that is not white space                  *)
(*   k = "amp"   : a bare "&", which no XML parser accepts                 *)
(*   k = "copen" : the start of a comment, <!--                            *)
(*   k = "cclose": the end of a comment, -->                               *)
(***************************************************************************)
Open(t)    == [k |-> "open",  t |-> t, v |-> <<>>]
Close(t)   == [k |-> "close", t |-> t, v |-> <<>>]
Elem(t, v) == [k |-> "elem",  t |-> t, v |-> v]
TextTok    == [k |-> "text",  t |-> <<>>, v |-> <<>>]
AmpTok     == [k |-> "amp",   t |-> <<>>, v |-> <<>>]
CommentOpen  == [k |-> "copen",  t |-> <<>>, v |-> <<>>]
CommentClose == [k |-> "cclose", t |-> <<>>, v |-> <<>>]

COUNTRY_TVCONFIG_MAP == <<"C", "O", "U", "N", "T", "R", "Y", "_", "T", "V", "C", "O", "N", "F", "I", "G", "_", "M", "A", "P">>
COUNTRY_NAME == <<"C", "O", "U", "N", "T", "R", "Y", "_", "N", "A", "M", "E">>
TV_SYSTEM == <<"T", "V", "_", "S", "Y", "S", "T", "E", "M">>
TV_CONFIG == <<"T", "V", "_", "C", "O", "N", "F", "I", "G">>
ROOT == <<"R", "O", "O", "T">>
CountryTvSysMapXML == <<"C", "o", "u", "n", "t", "r", "y", "T", "v", "S", "y", "s", "M", "a", "p", "X", "M", "L">>

\* str.lower
LowerChar(c) ==
    IF c \in UpperLetters THEN LowerSeq[CHOOSE i \in DOMAIN UpperSeq : UpperSeq[i] = c] ELSE c
StrLower(s) == [i \in 1..Len(s) |-> LowerChar(s[i])]

\* The expat scan behind ET.fromstring: elems lists the elements in document
\* order, each with the index of its parent (0 for the root); stack holds the
\* indices of the elements still open.
RECURSIVE XmlScan(_, _, _, _, _)
XmlScan(doc, i, stack, elems, rootDone) ==
    IF i > Len(doc)
    THEN [ok |-> (stack = <<>> /\ rootDone), elems |-> elems]
    ELSE LET tok == doc[i]
             top == IF stack = <<>> THEN 0 ELSE stack[Len(stack)]
             el  == [tag |-> tok.t, parent |-> top, text |-> tok.v]
         IN  CASE tok.k = "open" ->
                    IF stack = <<>> /\ rootDone
                    THEN [ok |-> FALSE, elems |-> <<>>]
                    ELSE XmlScan(doc, i + 1, Append(stack, Len(elems) + 1), Append(elems, el), rootDone)
               [] tok.k = "close" ->
                    IF stack = <<>> \/ elems[top].tag # tok.t
                    THEN [ok |-> FALSE, elems |-> <<>>]
                    ELSE XmlScan(doc, i + 1, SubSeq(stack, 1, Len(stack) - 1), elems, Len(stack) = 1)
               [] tok.k = "elem" ->
                    IF stack = <<>> /\ rootDone
                    THEN [ok |-> FALSE, elems |-> <<>>]
                    ELSE XmlScan(doc, i + 1, stack, Append(elems, el), rootDone \/ stack = <<>>)
               [] tok.k = "text" ->
                    IF stack = <<>>
                    THEN [ok |-> FALSE, elems |-> <<>>]
                    ELSE XmlScan(doc, i + 1, stack, elems, rootDone)
               [] OTHER -> [ok |-> FALSE, elems |-> <<>>]

\* What expat makes of the comments of a document: the tokens of a comment
\* are skipped, a comment that does not end or that holds another "<!--" is
\* an error, and a "-->" outside a comment is character data.
RECURSIVE DropComments(_, _)
DropComments(doc, inside) ==
    IF doc = <<>> THEN [ok |-> ~inside, doc |-> <<>>]
    ELSE LET tok  == Head(doc)
             rest == DropComments(Tail(doc), IF inside THEN tok.k # "cclose" ELSE tok.k = "copen")
         IN  IF inside /\ tok.k = "copen" THEN [ok |-> FALSE, doc |-> <<>>]
             ELSE IF inside \/ tok.k = "copen" THEN rest
             ELSE [ok  |-> rest.ok,
                   doc |-> IF ~rest.ok THEN <<>>
                           ELSE <<IF tok.k = "cclose" THEN TextTok ELSE tok>> \o rest.doc]

\* xml.etree.ElementTree.fromstring
ETfromstring(doc) ==
    LET plain == DropComments(doc, FALSE)
    IN  IF plain.ok THEN XmlScan(plain.doc, 1, <<>>, <<>>, FALSE)
        ELSE [ok |-> FALSE, elems |-> <<>>]

\* the members of a set of numbers, in ascending order
RECURSIVE AscSeq(_)
AscSeq(S) ==
    IF S = {} THEN <<>>
    ELSE LET m == CHOOSE x \in S : \A y \in S : x <= y
         IN  <<m>> \o AscSeq(S \ {m})

\* list(element): the children of element number n as <<tag, text>> pairs
ChildrenOf(elems, n) ==
    LET ix == AscSeq({j \in 1..Len(elems) : elems[j].parent = n})
    IN  [j \in 1..Len(ix) |-> <<elems[ix[j]].tag, elems[ix[j]].text>>]

\* the Element object of element number n, as the list of its children
ElementAt(elems, n) == [tag |-> elems[n].tag, children |-> ChildrenOf(elems, n)]

\* Element.findtext(tag): the text of the first child with that tag, else None
FindText(block, tag) ==
    LET hits == {j \in 1..Len(block.children) : block.children[j][1] = tag}
    IN  IF hits = {} THEN None
        ELSE block.children[CHOOSE j \in hits : \A h \in hits : j <= h][2]

\* x or ""
OrEmpty(x) == IF x = None THEN <<>> ELSE x

\* root.findall(".//TAG"): the proper descendants with exactly that tag
FindAllDescendants(elems, tag) ==
    LET ix == AscSeq({j \in 2..Len(elems) : elems[j].tag = tag})
    IN  [j \in 1..Len(ix) |-> ElementAt(elems, ix[j])]

\* the elements of root.iter() whose tag, folded by Fold, equals tag
IterByTag(elems, tag, Fold(_)) ==
    LET ix == AscSeq({j \in 1..Len(elems) : Fold(elems[j].tag) = tag})
    IN  [j \in 1..Len(ix) |-> ElementAt(elems, ix[j])]

\* re.finditer(r"<TAG>.*?</TAG>", text, DOTALL | IGNORECASE): the matched
\* fragments, left to right, each from a start tag to the nearest end tag
RECURSIVE RegexBlocks(_, _, _)
RegexBlocks(doc, i, tag) ==
    IF i > Len(doc) THEN <<>>
    ELSE IF doc[i].k = "open" /\ StrUpper(doc[i].t) = StrUpper(tag)
    THEN LET ends == {j \in (i + 1)..Len(doc) : doc[j].k = "close" /\ StrUpper(doc[j].t) = StrUpper(tag)}
         IN  IF ends = {} THEN <<>>
             ELSE LET j == CHOOSE e \in ends : \A f \in ends : e <= f
                  IN  <<SubSeq(doc, i, j)>> \o RegexBlocks(doc, j + 1, tag)
    ELSE RegexBlocks(doc, i + 1, tag)

\* ------------------------------------------------------------------ flag files
\* In the text of a config file the single character "K" stands for the key
\* persist.vendor.rtk.tv.dtv_satellite and "G" for persist.vendor.rtk.tv.enable_ginga.
KEY_DVBS == <<"K">>
KEY_GINGA == <<"G">>

MISSING == <<"M", "I", "S", "S", "I", "N", "G">>
NO_FLAG == <<"N", "O", "_", "F", "L", "A", "G">>
MissingTvConfig == <<"(", "m", "i", "s", "s", "i", "n", "g", " ", "T", "V", "_", "C", "O", "N", "F", "I", "G", ")">>

\* sub in s
Contains(s, sub) ==
    \E i \in 0..(Len(s) - Len(sub)) : SubSeq(s, i + 1, i + Len(sub)) = sub

\* s with every character of chars removed
RECURSIVE RemoveChars(_, _)
RemoveChars(s, chars) ==
    IF s = <<>> THEN <<>>
    ELSE (IF Head(s) \in chars THEN <<>> ELSE <<Head(s)>>) \o RemoveChars(Tail(s), chars)

\* check_dvbs_satellite_flag.py / check_ginga_flag.py: _strip_comment
StripComment(line) ==
    Strip(Split(Split(line, "#")[1], ";")[1], Whitespace)

\* the test _file_flag_state applies to one line of the file
LineHasFlag(raw, key) ==
    LET line == StripComment(raw)
    IN  line # <<>> /\ Contains(RemoveChars(line, {" "}), key \o <<"=", "0">>)

\* check_dvbs_satellite_flag.py / check_ginga_flag.py: _file_flag_state.
\* files maps each existing path to the lines of that file.
FileFlagState(files, path, key) ==
    IF path \notin DOMAIN files THEN [ok |-> FALSE, why |-> MISSING]
    ELSE IF \E i \in DOMAIN files[path] : LineHasFlag(files[path][i], key)
    THEN [ok |-> TRUE, why |-> None]
    ELSE [ok |-> FALSE, why |-> NO_FLAG]

\* ------------------------------------------------------------------ country blocks
NormalParseFailed == "XML normal parse failed"
WrappedNoBlocks == "wrapped ok but no COUNTRY_TVCONFIG_MAP blocks"
WrappedParseFailed == "XML wrapped parse failed"
NoBlocksAfterAll == "No COUNTRY_TVCONFIG_MAP blocks found after all parse strategies"
NoBlocksFound == "No COUNTRY_TVCONFIG_MAP blocks found"
XmlNotFound == "countryTvSysMap.xml not found"

\* tier 1 of _load_country_blocks: the document as it is
StrictBlocks(doc) ==
    LET p == ETfromstring(doc)
    IN  IF ~p.ok THEN [ok |-> FALSE, blocks |-> <<>>]
        ELSE LET found == FindAllDescendants(p.elems, COUNTRY_TVCONFIG_MAP)
             IN  [ok |-> TRUE,
                  blocks |-> IF found # <<>> THEN found
                             ELSE IF p.elems[1].tag = COUNTRY_TVCONFIG_MAP
                                  THEN <<ElementAt(p.elems, 1)>> ELSE <<>>]

\* tier 2 of _load_country_blocks: the document inside <ROOT>...</ROOT>
WrappedBlocks(doc) ==
    LET p == ETfromstring(<<Open(ROOT)>> \o doc \o <<Close(ROOT)>>)
    IN  IF ~p.ok THEN [ok |-> FALSE, blocks |-> <<>>]
        ELSE [ok |-> TRUE, blocks |-> FindAllDescendants(p.elems, COUNTRY_TVCONFIG_MAP)]

\* tier 3 of _load_country_blocks: each regex fragment parsed on its own
RECURSIVE FragmentBlocks(_)
FragmentBlocks(frags) ==
    IF frags = <<>> THEN <<>>
    ELSE LET p == ETfromstring(Head(frags))
         IN  (IF p.ok /\ StrUpper(p.elems[1].tag) = COUNTRY_TVCONFIG_MAP
              THEN <<ElementAt(p.elems, 1)>> ELSE <<>>) \o FragmentBlocks(Tail(frags))

ScanBlocks(doc) == FragmentBlocks(RegexBlocks(doc, 1, COUNTRY_TVCONFIG_MAP))

\* check_dvbs_satellite_flag.py: _load_country_blocks(xml_path, notes)
LoadCountryBlocksDvbs(doc, prior) ==
    LET t1 == StrictBlocks(doc)
        t2 == WrappedBlocks(doc)
        t3 == ScanBlocks(doc)
        normal_err  == IF t1.ok THEN <<>> ELSE <<NormalParseFailed>>
        wrapped_err == IF t2.ok THEN <<WrappedNoBlocks>> ELSE <<WrappedParseFailed>>
    IN  IF t1.blocks # <<>> THEN [blocks |-> t1.blocks, notes |-> prior]
        ELSE IF t2.blocks # <<>> THEN [blocks |-> t2.blocks, notes |-> prior]
        ELSE IF t3 # <<>> THEN [blocks |-> t3, notes |-> prior]
        ELSE [blocks |-> <<>>,
              notes |-> prior \o normal_err \o wrapped_err \o <<NoBlocksAfterAll>>]

\* check_ginga_flag.py: _load_country_blocks(xml_path, notes)
LoadCountryBlocksGinga(doc, prior) ==
    LET t1 == StrictBlocks(doc)
        t2 == WrappedBlocks(doc)
        t3 == ScanBlocks(doc)
        notes1 == IF t1.ok THEN prior ELSE Append(prior, NormalParseFailed)
        notes2 == IF t2.ok THEN notes1 ELSE Append(notes1, WrappedParseFailed)
    IN  IF t1.blocks # <<>> THEN [blocks |-> t1.blocks, notes |-> prior]
        ELSE IF t2.blocks # <<>> THEN [blocks |-> t2.blocks, notes |-> notes1]
        ELSE IF t3 # <<>> THEN [blocks |-> t3, notes |-> notes2]
        ELSE [blocks |-> <<>>, notes |-> Append(notes2, NoBlocksFound)]

\* ------------------------------------------------------------------ failure summary
\* the characters of the model in code-point order
AsciiOrder ==
    <<"\t", "\n", "\r", " ", "\"", "#", "&", "'", "(", ")", ",", "-", ".", "/",
      "0", "1", "2", "3", "4", "5", "6", "7", "8", "9", ":", ";", "<", "=", ">",
      "A", "B", "C", "D", "E", "F", "G", "H", "I", "J", "K", "L", "M",
      "N", "O", "P", "Q", "R", "S", "T", "U", "V", "W", "X", "Y", "Z", "_",
      "a", "b", "c", "d", "e", "f", "g", "h", "i", "j", "k", "l", "m",
      "n", "o", "p", "q", "r", "s", "t", "u", "v", "w", "x", "y", "z">>

Ord(c) == CHOOSE i \in DOMAIN AsciiOrder : AsciiOrder[i] = c

\* a < b for Python strings
RECURSIVE StrLess(_, _)
StrLess(a, b) ==
    IF b = <<>> THEN FALSE
    ELSE IF a = <<>> THEN TRUE
    ELSE IF Head(a) = Head(b) THEN StrLess(Tail(a), Tail(b))
    ELSE Ord(Head(a)) < Ord(Head(b))

\* sorted(S) for a set of strings
RECURSIVE SortedTexts(_)
SortedTexts(S) ==
    IF S = {} THEN <<>>
    ELSE LET m == CHOOSE x \in S : \A y \in S \ {x} : StrLess(x, y)
         IN  <<m>> \o SortedTexts(S \ {m})

DigitSeq == <<"0", "1", "2", "3", "4", "5", "6", "7", "8", "9">>

\* str(n) for n >= 0
RECURSIVE DecStr(_)
DecStr(n) ==
    IF n < 10 THEN <<DigitSeq[n + 1]>>
    ELSE DecStr(n \div 10) \o <<DigitSeq[(n % 10) + 1]>>

\* f"{p} ({r})"
FailedLine(p, r) == p \o <<" ", "(">> \o r \o <<")">>

\* the summary with a set in place of the Counter: every line counts 1
FailedSummaryUncounted(detail, dd) ==
    LET lines == [i \in 1..Len(detail) |-> FailedLine(detail[i][1], detail[i][2])]
    IN  IF dd
        THEN LET keys == SortedTexts({lines[i] : i \in DOMAIN lines})
             IN  [j \in 1..Len(keys) |-> keys[j] \o <<" ", "x", "1">>]
        ELSE lines

\* the failed_summary of check_dvbs_and_satellite_flag / check_ginga_flag
FailedSummary(detail, dd) ==
    LET lines == [i \in 1..Len(detail) |-> FailedLine(detail[i][1], detail[i][2])]
    IN  IF dd
        THEN LET keys   == SortedTexts({lines[i] : i \in DOMAIN lines})
                 ctr(k) == Cardinality({i \in DOMAIN lines : lines[i] = k})
             IN  [j \in 1..Len(keys) |-> keys[j] \o <<" ", "x">> \o DecStr(ctr(keys[j]))]
        ELSE lines

\* ------------------------------------------------------------------ flag checkers
\* A model.ini is a list of lines [key, val]: the line `key = "val"`.
IniLine(key, val) == [key |-> key, val |-> val]

inputSource == <<"i", "n", "p", "u", "t", "S", "o", "u", "r", "c", "e">>

\* In an inputSource value "D" stands for DVBS, "N" for NULL, "S" for SATELLITE.
DVBS_NULL == <<"D", ":", "N">>

\* check_dvbs_satellite_flag.py: parse_model_ini_for_inputsource
ParseModelIniForInputsource(ini) ==
    LET hits == {i \in DOMAIN ini : StrLower(ini[i].key) = StrLower(inputSource) /\ ini[i].val # <<>>}
    IN  IF hits = {} THEN <<>>
        ELSE Strip(ini[CHOOSE i \in hits : \A h \in hits : i <= h].val, Whitespace)

DVB == <<"D", "V", "B">>
ISDB == <<"I", "S", "D", "B">>

\* a class test that takes every block for a block of the class
InAnyClass(tv_system_text, class) == TRUE

\* the class test of the block loop: TV_SYSTEM is the class or starts with class + "_"
InClass(tv_system_text, class) ==
    tv_system_text = class \/ StartsWith(tv_system_text, class \o <<"_">>)

\* os.path.join(root, "TvSysMap", "countryTvSysMap.xml"); "c" names countryTvSysMap.xml
XmlPath(root) == OsPathJoin(OsPathJoin(root, <<"M">>), <<"c">>)

NoResult == [returned |-> FALSE]

\* what a call leaves when an exception leaves it
IsADirectoryError == "IsADirectoryError"
NoError == "no error"
Raised(exception) == [returned |-> FALSE, raised |-> exception]

\* p is a directory: some path of paths lies below it
IsADirectory(paths, p) == \E q \in paths : StartsWith(q, p \o <<"/">>)

\* the exception open(path) raises in _file_flag_state that neither of its
\* except clauses (UnicodeDecodeError, FileNotFoundError) catches
FileFlagStateRaises(paths, path) ==
    IF IsADirectory(paths, path) THEN IsADirectoryError ELSE NoError

\* one pass of the block loop of check_dvbs_and_satellite_flag / check_ginga_flag:
\* the new (checked_count, failed_detail), or the exception that leaves the loop;
\* paths are the paths of all the files of the tree
BlockStep(block, class, key, files, paths, count, failed) ==
    LET tv_system_text == StrUpper(Strip(OrEmpty(FindText(block, TV_SYSTEM)), Whitespace))
        tv_config_text == Strip(OrEmpty(FindText(block, TV_CONFIG)), Whitespace)
        cfg_path       == ResolveTvconfigsPath(Root, tv_config_text)
        st             == FileFlagState(files, cfg_path, key)
        step(c, f)     == [count |-> c, failed |-> f, raises |-> NoError]
    IN  IF ~InClass(tv_system_text, class)
        THEN step(count, failed)
        ELSE IF tv_config_text = <<>>
        THEN step(count + 1, Append(failed, <<MissingTvConfig, NO_FLAG>>))
        ELSE IF FileFlagStateRaises(paths, cfg_path) # NoError
        THEN [count |-> count, failed |-> failed, raises |-> FileFlagStateRaises(paths, cfg_path)]
        ELSE IF ~st.ok
        THEN step(count + 1, Append(failed, <<cfg_path, IF st.why = None THEN NO_FLAG ELSE st.why>>))
        ELSE step(count + 1, failed)

\* check_dvbs_satellite_flag.py: overall_pass
OverallPassDvbs(has, failed, ns) == has /\ Len(failed) = 0 /\ ns = <<>>

\* overall_pass with the notes forgotten
OverallPassGingaNoNotes(failed, ns) == Len(failed) = 0

\* check_ginga_flag.py: overall_pass
OverallPassGinga(failed, ns) == Len(failed) = 0 /\ ns = <<>>

\* the list a call keeps where a module-level list would be: what the last call left
KeptList(old) == old

\* `failed_detail = []`, `notes = []`, `details = []`: the empty list a call
\* starts with, whatever the last call left in a list of that name
NewList(old) == <<>>

\* check_dvbs_and_satellite_flag up to the block loop
DvbsStart ==
    /\ prog = "dvbs" /\ pc = "start"
    /\ LET input_source_val == ParseModelIniForInputsource(tree.model_ini)
       IN  has_dvbs_null' = (input_source_val # <<>> /\ Contains(input_source_val, DVBS_NULL))
    /\ checked_count' = 0
    /\ failed_detail' = NewList(failed_detail)
    /\ IF XmlPath(Root) \notin DOMAIN tree.xml
       THEN /\ notes' = Append(NewList(notes), XmlNotFound)
            /\ blocks' = <<>>
       ELSE LET ld == LoadCountryBlocksDvbs(tree.xml[XmlPath(Root)], NewList(notes))
            IN  /\ notes' = ld.notes
                /\ blocks' = ld.blocks
    /\ idx' = 1
    /\ pc' = "loop"
    /\ UNCHANGED <<pureVars, callVars, stdVars, pidVars, prog, tree, dedup, result>>

\* one iteration of `for block in blocks` of check_dvbs_and_satellite_flag
DvbsBlock ==
    /\ prog = "dvbs" /\ pc = "loop" /\ idx <= Len(blocks)
    /\ LET st == BlockStep(blocks[idx], DVB, KEY_DVBS, tree.files,
                           DOMAIN tree.xml \cup DOMAIN tree.files, checked_count, failed_detail)
       IN  /\ checked_count' = st.count
           /\ failed_detail' = st.failed
           /\ IF st.raises # NoError
              THEN /\ result' = Raised(st.raises)
                   /\ pc' = "done"
                   /\ UNCHANGED idx
              ELSE /\ idx' = idx + 1
                   /\ UNCHANGED <<result, pc>>
    /\ UNCHANGED <<pureVars, callVars, stdVars, pidVars, prog, tree, dedup, has_dvbs_null, blocks, notes>>

\* the summary and the return of check_dvbs_and_satellite_flag
DvbsFinish ==
    /\ prog = "dvbs" /\ pc = "loop" /\ idx > Len(blocks)
    /\ result' = [returned            |-> TRUE,
                  passed              |-> OverallPassDvbs(has_dvbs_null, failed_detail, notes),
                  input_source_check  |-> IF has_dvbs_null THEN "PASS" ELSE "FAIL",
                  checked_count       |-> checked_count,
                  failed_files        |-> FailedSummary(failed_detail, dedup),
                  failed_count        |-> Len(failed_detail),
                  notes               |-> notes]
    /\ pc' = "done"
    /\ UNCHANGED <<pureVars, callVars, stdVars, pidVars, prog, tree, dedup, has_dvbs_null, blocks, idx, checked_count,
                   failed_detail, notes>>

\* check_ginga_flag up to the block loop
GingaStart ==
    /\ prog = "ginga" /\ pc = "start"
    /\ checked_count' = 0
    /\ failed_detail' = NewList(failed_detail)
    /\ IF XmlPath(Root) \notin DOMAIN tree.xml
       THEN /\ notes' = Append(NewList(notes), XmlNotFound)
            /\ blocks' = <<>>
       ELSE LET ld == LoadCountryBlocksGinga(tree.xml[XmlPath(Root)], NewList(notes))
            IN  /\ notes' = ld.notes
                /\ blocks' = ld.blocks
    /\ idx' = 1
    /\ pc' = "loop"
    /\ UNCHANGED <<pureVars, callVars, stdVars, pidVars, prog, tree, dedup, has_dvbs_null, result>>

\* one iteration of `for block in blocks` of check_ginga_flag
GingaBlock ==
    /\ prog = "ginga" /\ pc = "loop" /\ idx <= Len(blocks)
    /\ LET st == BlockStep(blocks[idx], ISDB, KEY_GINGA, tree.files,
                           DOMAIN tree.xml \cup DOMAIN tree.files, checked_count, failed_detail)
       IN  /\ checked_count' = st.count
           /\ failed_detail' = st.failed
           /\ IF st.raises # NoError
              THEN /\ result' = Raised(st.raises)
                   /\ pc' = "done"
                   /\ UNCHANGED idx
              ELSE /\ idx' = idx + 1
                   /\ UNCHANGED <<result, pc>>
    /\ UNCHANGED <<pureVars, callVars, stdVars, pidVars, prog, tree, dedup, has_dvbs_null, blocks, notes>>

\* the summary and the return of check_ginga_flag
GingaFinish ==
    /\ prog = "ginga" /\ pc = "loop" /\ idx > Len(blocks)
    /\ result' = [returned      |-> TRUE,
                  passed        |-> OverallPassGinga(failed_detail, notes),
                  checked_count |-> checked_count,
                  failed_files  |-> FailedSummary(failed_detail, dedup),
                  failed_count  |-> Len(failed_detail),
                  notes         |-> notes]
    /\ pc' = "done"
    /\ UNCHANGED <<pureVars, callVars, stdVars, pidVars, prog, tree, dedup, has_dvbs_null, blocks, idx, checked_count,
                   failed_detail, notes>>

\* ------------------------------------------------------------------ file trees of the flag checkers
\* TV_CONFIG references: "/tvconfigs/a" and the relative "b"
CfgRefs == {<<"/", "T", "/", "a">>, <<"b">>}

\* a TV_CONFIG reference to a directory: "/tvconfigs/TvSysMap"
CfgDirRef == <<"/", "T", "/", "M">>

\* the files those references resolve to
CfgPaths == {ResolveTvconfigsPath(Root, r) : r \in CfgRefs}

\* a config file that sets both flags to 0, and one that sets neither
FlagLines == <<<<"K", "=", "0">>, <<"G", " ", "=", " ", "0">>>>
NoFlagLines == <<<<"K", "=", "1">>, <<"#", "G", "=", "0">>>>

\* the block <COUNTRY_TVCONFIG_MAP><TV_SYSTEM>sys</TV_SYSTEM>[<TV_CONFIG>cfg</TV_CONFIG>]</...>
FlagBlockTokens(sys, cfg) ==
    <<Open(COUNTRY_TVCONFIG_MAP), Elem(TV_SYSTEM, sys)>>
    \o (IF cfg = None THEN <<>> ELSE <<Elem(TV_CONFIG, cfg)>>)
    \o <<Close(COUNTRY_TVCONFIG_MAP)>>

FlagBlockSet == {FlagBlockTokens(sys, cfg) : sys \in {DVB, ISDB}, cfg \in CfgRefs \cup {CfgDirRef, None}}

\* the concatenation of a list of token lists
RECURSIVE Flatten(_)
Flatten(ss) == IF ss = <<>> THEN <<>> ELSE Head(ss) \o Flatten(Tail(ss))

\* A country map with the given blocks: inside one root element, as a bare
\* fragment with no root, or as a fragment that starts with a stray "&".
ShapeDoc(shape, bs) ==
    CASE shape = "rooted" -> <<Open(ROOT)>> \o Flatten(bs) \o <<Close(ROOT)>>
      [] shape = "bare"   -> Flatten(bs)
      [] shape = "amp"    -> <<AmpTok>> \o Flatten(bs)

DocShapes == {"rooted", "bare", "amp"}

FlagDocs == {ShapeDoc(sh, bs) : sh \in DocShapes, bs \in TextsUpTo(FlagBlockSet, MaxBlocks)}

\* every set of existing files over the given paths, with the given contents
FileMaps(paths, contents) ==
    UNION {[sub -> contents] : sub \in SUBSET paths}

FlagTrees ==
    [model_ini : {<<IniLine(inputSource, DVBS_NULL)>>, <<IniLine(inputSource, <<"D", ":", "S">>)>>},
     xml       : FileMaps({XmlPath(Root)}, FlagDocs),
     files     : FileMaps(CfgPaths, {FlagLines, NoFlagLines})]

FlagIdle ==
    /\ dedup = TRUE /\ has_dvbs_null = FALSE /\ blocks = <<>> /\ checked_count = 0
    /\ failed_detail = <<>> /\ notes = <<>>

StdIdle ==
    /\ standard = DVB /\ tv_sys_map = None /\ country_xmls = <<>> /\ all_pairs = <<>>
    /\ details = <<>>

PidIdle ==
    /\ tvmaps = <<>> /\ cpaths = <<>> /\ countries = {} /\ ctvs_paths = <<>> /\ ctvs_map = <<>>
    /\ ctvs_missing = <<>> /\ problems = <<>>

\* the first call has not returned
CallIdle == run = 1 /\ first = NoResult

ProgIdle ==
    /\ prog = "none" /\ pc = "done" /\ tree = <<>> /\ idx = 1 /\ result = NoResult
    /\ CallIdle
    /\ FlagIdle /\ StdIdle /\ PidIdle

PureIdle == fn = "none" /\ arg = <<>> /\ ret = <<>>

InitFlag ==
    /\ PureIdle
    /\ prog \in {"dvbs", "ginga"}
    /\ pc = "start"
    /\ tree \in FlagTrees
    /\ dedup \in BOOLEAN
    /\ has_dvbs_null = FALSE
    /\ blocks = <<>> /\ idx = 1 /\ checked_count = 0 /\ failed_detail = <<>> /\ notes = <<>>
    /\ result = NoResult
    /\ CallIdle
    /\ StdIdle /\ PidIdle

NextFlag ==
    \/ DvbsStart \/ DvbsBlock \/ DvbsFinish
    \/ GingaStart \/ GingaBlock \/ GingaFinish

SpecFlag == InitFlag /\ [][NextFlag]_vars

\* ------------------------------------------------------------------ harness for the path resolvers
PathAlphabet == {"/", ".", "a", "T"}
PathRefs == TextsUpTo(PathAlphabet, MaxRefLen)

InitPath ==
    /\ fn = "none"
    /\ arg \in PathRefs
    /\ ret = <<>>
    /\ ProgIdle

CallResolveTvconfigsPath ==
    /\ fn = "none"
    /\ fn' = "_resolve_tvconfigs_path"
    /\ ret' = ResolveTvconfigsPath(Root, arg)
    /\ UNCHANGED <<arg, progVars>>

CallResolveFromRoot ==
    /\ fn = "none"
    /\ fn' = "_resolve_from_root"
    /\ ret' = ResolveFromRoot(Root, arg)
    /\ UNCHANGED <<arg, progVars>>

CallResolveTvconfigsPathEwbs ==
    /\ fn = "none"
    /\ fn' = "ewbs._resolve_tvconfigs_path"
    /\ ret' = ResolveTvconfigsPathEwbs(arg, Root)
    /\ UNCHANGED <<arg, progVars>>

NextPath == CallResolveTvconfigsPath \/ CallResolveFromRoot \/ CallResolveTvconfigsPathEwbs

SpecPath == InitPath /\ [][NextPath]_vars

\* ------------------------------------------------------------------ harness for _file_flag_state
LineAlphabet == {"K", "G", "=", "0", "1", " ", "#", "x"}
Lines == TextsUpTo(LineAlphabet, MaxLineLen)

\* the path of the one-line config file the harness reads
LinePath == <<"/", "r", "/", "a">>

InitLine ==
    /\ fn = "none"
    /\ arg \in Lines
    /\ ret = <<>>
    /\ ProgIdle

\* check_dvbs_satellite_flag.py: _file_flag_state(path, KEY) on the file whose one line is arg
CallFileFlagStateDvbs ==
    /\ fn = "none"
    /\ fn' = "dvbs._file_flag_state"
    /\ ret' = FileFlagState(LinePath :> <<arg>>, LinePath, KEY_DVBS)
    /\ UNCHANGED <<arg, progVars>>

\* check_ginga_flag.py: _file_flag_state(path, KEY) on the file whose one line is arg
CallFileFlagStateGinga ==
    /\ fn = "none"
    /\ fn' = "ginga._file_flag_state"
    /\ ret' = FileFlagState(LinePath :> <<arg>>, LinePath, KEY_GINGA)
    /\ UNCHANGED <<arg, progVars>>

NextLine == CallFileFlagStateDvbs \/ CallFileFlagStateGinga

SpecLine == InitLine /\ [][NextLine]_vars

\* ------------------------------------------------------------------ harness for the country normalisers
UNITED_KINGDOM == <<"U", "N", "I", "T", "E", "D", "_", "K", "I", "N", "G", "D", "O", "M">>
FRANCE == <<"F", "R", "A", "N", "C", "E">>
POLAND == <<"P", "O", "L", "A", "N", "D">>

TokenAlphabet == {"X", "x", "E", "U", "K", " "}
NamedTokens ==
    {UNITED_KINGDOM, <<"U", "n", "i", "t", "e", "d", " ", "K", "i", "n", "g", "d", "o", "m">>, FRANCE, POLAND,
     <<"s", "o", "u", "t", "h", " ", "k", "o", "r", "e", "a">>, <<"U", "S", "A">>}
\* the codes the normalisers can give out: the values of the table and the default allow-list
OutputCodes == {NAME_TO_ALPHA2[n] : n \in DOMAIN NAME_TO_ALPHA2} \cup EU_ALLOWED_DEFAULT
NormTokens == TextsUpTo(TokenAlphabet, MaxTokLen) \cup NamedTokens \cup OutputCodes

InitNorm ==
    /\ fn = "none"
    /\ arg \in NormTokens
    /\ ret = <<>>
    /\ ProgIdle

CallNameToAlpha2 ==
    /\ fn = "none"
    /\ fn' = "_name_to_alpha2"
    /\ ret' = NameToAlpha2(arg)
    /\ UNCHANGED <<arg, progVars>>

CallExtractCountryCodesFromText ==
    /\ fn = "none"
    /\ fn' = "_extract_country_codes_from_text"
    /\ ret' = ExtractCountryCodesFromText(arg)
    /\ UNCHANGED <<arg, progVars>>

NextNorm == CallNameToAlpha2 \/ CallExtractCountryCodesFromText

SpecNorm == InitNorm /\ [][NextNorm]_vars

\* ------------------------------------------------------------------ harness for the tiers of _load_country_blocks
\* tiers 2 and 3 of _load_country_blocks in the order the code tries them:
\* the wrapped parse, and the regex scan when the wrapped parse gives no block
FallbackBlocks(doc) ==
    IF WrappedBlocks(doc).blocks # <<>> THEN WrappedBlocks(doc).blocks ELSE ScanBlocks(doc)

\* the tokens of the documents the tiers are applied to
TierTokens ==
    {Open(ROOT), Close(ROOT), Open(COUNTRY_TVCONFIG_MAP), Close(COUNTRY_TVCONFIG_MAP),
     Elem(TV_SYSTEM, DVB)}
TierDocs == TextsUpTo(TierTokens, MaxDocLen)

InitTiers ==
    /\ fn = "none"
    /\ arg \in TierDocs
    /\ ret = <<>>
    /\ ProgIdle

\* tier 1 of _load_country_blocks on the document arg
CallStrictBlocks ==
    /\ fn = "none"
    /\ fn' = "tier1"
    /\ ret' = StrictBlocks(arg)
    /\ UNCHANGED <<arg, progVars>>

\* tiers 2 and 3 of _load_country_blocks on the document arg
CallFallbackBlocks ==
    /\ fn = "none"
    /\ fn' = "tiers23"
    /\ ret' = FallbackBlocks(arg)
    /\ UNCHANGED <<arg, progVars>>

NextTiers == CallStrictBlocks \/ CallFallbackBlocks

SpecTiers == InitTiers /\ [][NextTiers]_vars

\* ------------------------------------------------------------------ the chain walk: model.ini
\* In path text "M" stands for the directory TvSysMap, "m" for tvSysMap,
\* "s" for tvSysMapCfgs.xml, "S" for TvSysMapCfgs.xml, "c" and "d" for two
\* country maps, "y" for the directory country and "i" for <standard>.ini.
\* A model.ini line [key, val] is the text `key = "val"`, or the bare text
\* key when val is None; a value holds no quote, semicolon or line break.
tvsysmap == <<"t", "v", "s", "y", "s", "m", "a", "p">>
TvSysMapKey == <<"T", "v", "S", "y", "s", "M", "a", "p">>
COUNTRY == <<"C", "O", "U", "N", "T", "R", "Y">>
SectionLine(name) == [key |-> <<"[">> \o name \o <<"]">>, val |-> None]

\* line.startswith("#") or line.startswith(";")
IsCommentLine(line) ==
    LET s == Strip(line.key, Whitespace)
    IN  StartsWith(s, <<"#">>) \/ StartsWith(s, <<";">>)

\* line.startswith("[") and line.endswith("]")
IsSectionLine(line) ==
    LET s == Strip(line.key, Whitespace)
    IN  line.val = None /\ Len(s) >= 1 /\ s[1] = "[" /\ s[Len(s)] = "]"

\* "tvsysmap" in raw.lower(): the key spells it or the value names the directory TvSysMap
MentionsTvSysMap(line) ==
    \/ Contains(StrLower(line.key), tvsysmap)
    \/ (line.val # None /\ \E j \in DOMAIN line.val : line.val[j] \in {"M", "m", "S"})

\* tv_multi_standard_validation.py: _extract_ini_path
ExtractIniPath(line) ==
    IF line.val = None \/ line.val = <<>> THEN None ELSE Strip(line.val, Whitespace)

\* x is None or empty (`if not x`)
Falsy(x) == x = None \/ x = <<>>

\* first loop of _find_tv_sys_map_and_country_path: the TvSysMap value of section [COUNTRY]
RECURSIVE CountrySectionScan(_, _, _, _)
CountrySectionScan(ini, i, sect, tv) ==
    IF i > Len(ini) THEN tv
    ELSE LET line == ini[i]
             s    == Strip(line.key, Whitespace)
             p    == ExtractIniPath(line)
         IN  IF (s = <<>> /\ line.val = None) \/ IsCommentLine(line)
             THEN CountrySectionScan(ini, i + 1, sect, tv)
             ELSE IF IsSectionLine(line)
             THEN CountrySectionScan(ini, i + 1, StrUpper(Strip(SubSeq(s, 2, Len(s) - 1), Whitespace)), tv)
             ELSE IF sect = COUNTRY /\ StartsWith(StrLower(s), tvsysmap) /\ ~Falsy(p)
             THEN CountrySectionScan(ini, i + 1, sect, p)
             ELSE CountrySectionScan(ini, i + 1, sect, tv)

\* tv_multi_standard_validation.py: _find_tv_sys_map_and_country_path (the TvSysMap half)
FindTvSysMap(ini) ==
    LET tv   == CountrySectionScan(ini, 1, None, None)
        hits == {i \in DOMAIN ini : MentionsTvSysMap(ini[i]) /\ ~Falsy(ExtractIniPath(ini[i]))}
    IN  IF tv # None THEN tv
        ELSE IF hits = {} THEN None
        ELSE ExtractIniPath(ini[CHOOSE i \in hits : \A h \in hits : i <= h])

\* tv_multi_standard_validation.py: _auto_locate_tvsysmap, the paths it can return
AutoLocateTvsysmap(root, paths) ==
    LET candidates == <<OsPathJoin(OsPathJoin(root, <<"M">>), <<"s">>),
                        OsPathJoin(OsPathJoin(root, <<"m">>), <<"s">>),
                        OsPathJoin(root, <<"S">>)>>
        found      == {i \in DOMAIN candidates : candidates[i] \in paths}
        globbed    == {p \in paths :
                          /\ StartsWith(p, root \o <<"/">>)
                          /\ LET rel == Split(DropFirst(p, Len(root) + 1), "/")
                             IN  Len(rel) <= 4 /\ rel[Len(rel)] = <<"s">>}
    IN  IF found # {} THEN {candidates[CHOOSE i \in found : \A h \in found : i <= h]}
        ELSE IF globbed # {} THEN globbed
        ELSE {None}

\* the order-preserving removal of duplicates at the end of _resolve_country_tv_map_xmls
RECURSIVE Uniq(_, _)
Uniq(xs, seen) ==
    IF xs = <<>> THEN <<>>
    ELSE IF Head(xs) \in seen THEN Uniq(Tail(xs), seen)
    ELSE <<Head(xs)>> \o Uniq(Tail(xs), seen \cup {Head(xs)})

\* the stripped texts of the <CountryTvSysMapXML> elements of a parsed document
PointerTexts(elems) ==
    LET ix == AscSeq({j \in 1..Len(elems) : StrLower(elems[j].tag) = StrLower(CountryTvSysMapXML)})
    IN  [j \in 1..Len(ix) |-> Strip(elems[ix[j]].text, Whitespace)]

\* the same texts found by the regular expression in a document that does not parse
\* (a pointer element is a leaf)
PointerTextsRegex(doc) ==
    LET ix == AscSeq({j \in 1..Len(doc) :
                         doc[j].k = "elem" /\ StrLower(doc[j].t) = StrLower(CountryTvSysMapXML)})
    IN  [j \in 1..Len(ix) |-> Strip(doc[ix[j]].v, Whitespace)]

\* the members of a list that are not empty, in order
RECURSIVE NonEmpty(_)
NonEmpty(xs) ==
    IF xs = <<>> THEN <<>>
    ELSE IF Head(xs) = <<>> THEN NonEmpty(Tail(xs))
    ELSE <<Head(xs)>> \o NonEmpty(Tail(xs))

\* tv_multi_standard_validation.py: _resolve_country_tv_map_xmls
ResolveCountryTvMapXmls(doc, root) ==
    IF doc = <<>> THEN <<>>
    ELSE LET p  == ETfromstring(doc)
             vs == NonEmpty(IF p.ok THEN PointerTexts(p.elems) ELSE PointerTextsRegex(doc))
         IN  Uniq([j \in 1..Len(vs) |-> ResolveFromRoot(root, vs[j])], {})

\* ------------------------------------------------------------------ the chain walk: country maps
\* the stripped text of the last child of a block whose upper-cased tag is tag, else dflt
LastChildText(block, tag, dflt) ==
    LET hits == {j \in 1..Len(block.children) : StrUpper(block.children[j][1]) = tag}
    IN  IF hits = {} THEN dflt
        ELSE Strip(block.children[CHOOSE j \in hits : \A h \in hits : j >= h][2], Whitespace)

\* _tag(t) of the regex fallback: the stripped text of the first <t> element
\* of a fragment (a field element is a leaf), else ""
FragmentTag(frag, tag) ==
    LET hits == {j \in 1..Len(frag) : frag[j].k = "elem" /\ StrUpper(frag[j].t) = tag}
    IN  IF hits = {} THEN <<>>
        ELSE Strip(frag[CHOOSE j \in hits : \A h \in hits : j <= h].v, Whitespace)

\* the (name, system, config) fields of every block, by element tree or by regex
BlockFields(doc, parsed) ==
    IF parsed.ok
    THEN LET bs == IterByTag(parsed.elems, COUNTRY_TVCONFIG_MAP, StrUpper)
         IN  [j \in 1..Len(bs) |->
                 [name |-> LastChildText(bs[j], COUNTRY_NAME, <<>>),
                  sys  |-> LastChildText(bs[j], TV_SYSTEM, <<>>),
                  cfg  |-> LastChildText(bs[j], TV_CONFIG, None)]]
    ELSE LET fs == RegexBlocks(doc, 1, COUNTRY_TVCONFIG_MAP)
         IN  [j \in 1..Len(fs) |->
                 [name |-> FragmentTag(fs[j], COUNTRY_NAME),
                  sys  |-> FragmentTag(fs[j], TV_SYSTEM),
                  cfg  |-> IF FragmentTag(fs[j], TV_CONFIG) = <<>> THEN None
                           ELSE FragmentTag(fs[j], TV_CONFIG)]]

\* the blocks that name a country (`if country:` / `if name:`)
RECURSIVE Named(_)
Named(fields) ==
    IF fields = <<>> THEN <<>>
    ELSE IF Head(fields).name = <<>> THEN Named(Tail(fields))
    ELSE <<Head(fields)>> \o Named(Tail(fields))

\* tv_multi_standard_validation.py: _parse_country_tv_pairs
ParseCountryTvPairs(doc, country_tv_xml) ==
    IF doc = <<>> THEN <<>>
    ELSE LET fs == Named(BlockFields(doc, ETfromstring(doc)))
         IN  [j \in 1..Len(fs) |->
                 [country |-> NormCountryName(fs[j].name),
                  system  |-> StrUpper(Strip(fs[j].sys, Whitespace)),
                  path    |-> country_tv_xml]]

\* the text of a list file after comment removal: each line up to its first ";" or "#"
CutComment(line) ==
    LET cuts == {j \in 1..Len(line) : line[j] \in {";", "#"}}
    IN  IF cuts = {} THEN line
        ELSE SubSeq(line, 1, (CHOOSE j \in cuts : \A h \in cuts : j <= h) - 1)

\* the value of a list token: what follows its first "=", if it has one
TokenValue(t) ==
    LET eqs == {j \in 1..Len(t) : t[j] = "="}
    IN  IF eqs = {} THEN t
        ELSE Strip(DropFirst(t, CHOOSE j \in eqs : \A h \in eqs : j <= h), Whitespace)

\* the stripped tokens of one line of a list file
LineTokens(line) ==
    LET parts == SplitOn(CutComment(line), {","})
    IN  {Strip(parts[j], Whitespace) : j \in DOMAIN parts}

\* tv_multi_standard_validation.py: _parse_country_list, on the lines of the file
ParseCountryList(lines) ==
    {NormCountryName(TokenValue(t)) : t \in UNION {LineTokens(lines[i]) : i \in DOMAIN lines} \ {<<>>}}

\* pid1_config_check.py: _sanitize_tv_path strips these from the right
SanitizeChars == {"\"", ",", ";", " ", "\t", "\r", "\n", ")"}

\* pid1_config_check.py: _resolve_to_project
ResolveToProject(root, tv_path0) ==
    LET tv_path == RStrip(tv_path0, SanitizeChars)
    IN  IF StartsWith(tv_path, TvconfigsPrefix)
        THEN PathResolve(root, DropFirst(tv_path, Len(TvconfigsPrefix)))
        ELSE PathResolve(root, LStrip(tv_path, {".", "/"}))

\* TV_PATH_RE.findall on a value: every "/tvconfigs/..." run up to white space
RECURSIVE TvPathFindall(_, _)
TvPathFindall(val, i) ==
    IF i + Len(TvconfigsPrefix) > Len(val) THEN <<>>
    ELSE IF /\ SubSeq(val, i, i + Len(TvconfigsPrefix) - 1) = TvconfigsPrefix
            /\ val[i + Len(TvconfigsPrefix)] \notin Whitespace
    THEN LET stops == {j \in (i + Len(TvconfigsPrefix))..Len(val) : val[j] \in Whitespace}
             last  == IF stops = {} THEN Len(val)
                      ELSE (CHOOSE j \in stops : \A h \in stops : j <= h) - 1
         IN  <<SubSeq(val, i, last)>> \o TvPathFindall(val, last + 1)
    ELSE TvPathFindall(val, i + 1)

\* the fragments of a model.ini line
LinePaths(line) == IF line.val = None THEN <<>> ELSE TvPathFindall(line.val, 1)

\* "/tvconfigs/TvSysMap/" and "/tvconfigs/country/"
TvSysMapDir == <<"/", "T", "/", "M", "/">>
CountryDir == <<"/", "T", "/", "y", "/">>

\* the files one line contributes to find_tvsysmap_files_from_model
RECURSIVE ExistingTargets(_, _, _, _)
ExistingTargets(ms, dirs, root, paths) ==
    IF ms = <<>> THEN <<>>
    ELSE LET p == ResolveToProject(root, Head(ms))
         IN  (IF (\E d \in dirs : Contains(Head(ms), d)) /\ p \in paths THEN <<p>> ELSE <<>>)
             \o ExistingTargets(Tail(ms), dirs, root, paths)

\* pid1_config_check.py: find_tvsysmap_files_from_model
RECURSIVE FindTvsysmapFilesFromModel(_, _, _)
FindTvsysmapFilesFromModel(ini, root, paths) ==
    IF ini = <<>> THEN <<>>
    ELSE (IF MentionsTvSysMap(Head(ini))
          THEN ExistingTargets(LinePaths(Head(ini)), {TvSysMapDir}, root, paths)
          ELSE <<>>) \o FindTvsysmapFilesFromModel(Tail(ini), root, paths)

\* pid1_config_check.py: _try_parse_xml_any
UnderscoreRoot == <<"_", "r", "o", "o", "t">>
TryParseXmlAny(doc) ==
    LET p == ETfromstring(doc)
    IN  IF p.ok THEN p ELSE ETfromstring(<<Open(UnderscoreRoot)>> \o doc \o <<Close(UnderscoreRoot)>>)

\* pid1_config_check.py: resolve_country_tvsysmap_paths_from_tvsysmap
ResolveCountryTvsysmapPaths(doc, root) ==
    LET rt == TryParseXmlAny(doc)
        vs == NonEmpty(IF rt.ok THEN PointerTexts(rt.elems) ELSE PointerTextsRegex(doc))
    IN  [j \in 1..Len(vs) |-> ResolveToProject(root, vs[j])]

\* pid1_config_check.py: parse_country_tv_system_file
ParseCountryTvSystemFile(doc) == Named(BlockFields(doc, TryParseXmlAny(doc)))

\* ------------------------------------------------------------------ the chain walk: files
\* the files of a tree: documents in tree.xml, line files in tree.files
FilePaths(t) == DOMAIN t.xml \cup DOMAIN t.files

\* Path.exists(): a file of the tree or a directory above one
Exists(t, p) ==
    p # None /\ (p \in FilePaths(t) \/ \E q \in FilePaths(t) : StartsWith(q, p \o <<"/">>))

\* _read_text of a document: "" when the path is not a readable file
ReadDoc(t, p) == IF p \in DOMAIN t.xml THEN t.xml[p] ELSE <<>>

\* _read_text of a line file, as its lines
ReadLines(t, p) == IF p \in DOMAIN t.files THEN t.files[p] ELSE <<>>

\* the characters of a token, of a document and of a model.ini line
RenderTok(tok) ==
    CASE tok.k = "open"  -> <<"<">> \o tok.t \o <<">">>
      [] tok.k = "close" -> <<"<", "/">> \o tok.t \o <<">">>
      [] tok.k = "elem"  -> <<"<">> \o tok.t \o <<">">> \o tok.v \o <<"<", "/">> \o tok.t \o <<">">>
      [] tok.k = "text"  -> <<"x">>
      [] tok.k = "copen" -> <<"<", "!", "-", "-">>
      [] tok.k = "cclose" -> <<"-", "-", ">">>
      [] OTHER           -> <<"&">>
RenderDoc(doc) == Flatten([j \in 1..Len(doc) |-> RenderTok(doc[j])])
RenderLine(line) ==
    IF line.val = None THEN line.key
    ELSE line.key \o <<" ", "=", " ", "\"">> \o line.val \o <<"\"">>

\* _read_text of any file of the tree, as characters
ReadText(t, p) ==
    IF p \in DOMAIN t.xml THEN RenderDoc(t.xml[p])
    ELSE IF p \in DOMAIN t.files THEN JoinWith(t.files[p], "\n")
    ELSE <<>>

country_path == <<"c", "o", "u", "n", "t", "r", "y", "_", "p", "a", "t", "h">>

\* pid1_config_check.py: gather_pid_countries_from_model
GatherPidCountriesFromModel(t, root) ==
    LET ini  == t.model_ini
        used == {i \in DOMAIN ini :
                    Contains(StrLower(ini[i].key), country_path) \/ MentionsTvSysMap(ini[i])}
        refs(i) == ExistingTargets(LinePaths(ini[i]), {CountryDir, TvSysMapDir}, root, FilePaths(t))
    IN  UNION {ExtractCountryCodesFromText(RenderLine(ini[i]))
               \cup UNION {ExtractCountryCodesFromText(ReadText(t, refs(i)[j])) : j \in DOMAIN refs(i)}
               : i \in used}

\* ------------------------------------------------------------------ run_tv_standard_check
\* the COUNTRY_PATH a model.ini declares: /tvconfigs/country/other.ini ("o")
COUNTRY_PATH == <<"C", "O", "U", "N", "T", "R", "Y", "_", "P", "A", "T", "H">>
OtherListRef == CountryDir \o <<"o">>
OtherListPath == ResolveFromRoot(Root, OtherListRef)
OtherListLines == <<<<"U", "S", "A">>>>

\* the list a checker that honoured model.ini would compare against
DeclaredCountryPath(std) == OtherListRef

\* f"/tvconfigs/country/{standard}.ini"
ForcedCountryPath(std) == CountryDir \o std \o <<".", "i", "n", "i">>

\* the dictionary run_tv_standard_check returns
StdResult(ok, tvmap, xmls, all, target, allowed, miss, dets) ==
    [returned                  |-> TRUE,
     passed                    |-> ok,
     tv_sys_map                |-> IF tvmap = None THEN <<>> ELSE tvmap,
     country_xmls              |-> xmls,
     customer_countries_all    |-> all,
     customer_target_countries |-> target,
     allowed_countries         |-> allowed,
     missing                   |-> miss,
     details                   |-> dets]

\* the lines of details: a message and what it is about
Detail(msg, about) == [msg |-> msg, about |-> about]

\* the class test of run_tv_standard_check: s.startswith(standard)
StartsWithStandard(system, std) == StartsWith(system, std)

\* run_tv_standard_check up to the loop over the country maps
StdStart ==
    /\ prog = "std" /\ pc = "start"
    /\ LET tv_sys_map_rel == FindTvSysMap(tree.model_ini)
           the_country_path == ResolveFromRoot(Root, ForcedCountryPath(standard))
       IN  \E located \in (IF Falsy(tv_sys_map_rel) THEN AutoLocateTvsysmap(Root, FilePaths(tree))
                           ELSE {ResolveFromRoot(Root, tv_sys_map_rel)}) :
             LET info == [source |-> IF Falsy(tv_sys_map_rel) THEN "(auto)" ELSE "(from model.ini)",
                          path   |-> located]
                 xmls == ResolveCountryTvMapXmls(ReadDoc(tree, located), Root)
                 fail(d) == /\ details' = Append(NewList(details), d)
                            /\ result' = StdResult(FALSE, located, <<>>, <<>>, <<>>, <<>>, <<>>,
                                                   Append(NewList(details), d))
                            /\ pc' = "done"
                            /\ country_xmls' = <<>>
             IN  /\ tv_sys_map' = info
                 /\ IF ~Exists(tree, located)
                    THEN fail(Detail("[ERROR] no TvSysMap file", info))
                    ELSE IF ~Exists(tree, the_country_path)
                    THEN fail(Detail("[ERROR] no list file", the_country_path))
                    ELSE IF xmls = <<>>
                    THEN fail(Detail("[ERROR] no <CountryTvSysMapXML> target", located))
                    ELSE /\ details' = NewList(details)
                         /\ country_xmls' = xmls
                         /\ pc' = "loop"
                         /\ UNCHANGED result
    /\ idx' = 1
    /\ all_pairs' = <<>>
    /\ UNCHANGED <<pureVars, callVars, flagVars, pidVars, prog, tree, standard>>

\* one iteration of `for p in country_xmls` of run_tv_standard_check
StdDoc ==
    /\ prog = "std" /\ pc = "loop" /\ idx <= Len(country_xmls)
    /\ LET p == country_xmls[idx]
           d == Detail("[ERROR] missing countryTvSysMap.xml", p)
       IN  IF ~Exists(tree, p)
           THEN /\ details' = Append(details, d)
                /\ result' = StdResult(FALSE, tv_sys_map.path, country_xmls, <<>>, <<>>, <<>>, <<>>,
                                       Append(details, d))
                /\ pc' = "done"
                /\ UNCHANGED <<idx, all_pairs>>
           ELSE /\ all_pairs' = all_pairs \o ParseCountryTvPairs(ReadDoc(tree, p), p)
                /\ idx' = idx + 1
                /\ UNCHANGED <<details, result, pc>>
    /\ UNCHANGED <<pureVars, callVars, flagVars, pidVars, prog, tree, standard, tv_sys_map, country_xmls>>

\* the comparison and the return of run_tv_standard_check
StdFinish ==
    /\ prog = "std" /\ pc = "loop" /\ idx > Len(country_xmls)
    /\ LET the_country_path == ResolveFromRoot(Root, ForcedCountryPath(standard))
           all     == {all_pairs[j].country : j \in DOMAIN all_pairs}
           target  == {all_pairs[j].country : j \in {h \in DOMAIN all_pairs :
                                                        StartsWithStandard(all_pairs[h].system, standard)}}
           allowed == ParseCountryList(ReadLines(tree, the_country_path))
           missing == target \ allowed
           head    == <<Detail("=== compare by country name ===", standard),
                        Detail("Model.ini", <<>>),
                        Detail("TvSysMap", tv_sys_map)>>
                      \o [j \in 1..Len(country_xmls) |-> Detail("Country XML", country_xmls[j])]
                      \o <<Detail("COUNTRY_PATH", the_country_path),
                           Detail("customer countries (all)", SortedTexts(all)),
                           Detail("customer countries (standard)", SortedTexts(target)),
                           Detail("allowed countries", SortedTexts(allowed))>>
           closing == IF missing = {} THEN Detail("check passed", <<>>)
                      ELSE Detail("check failed, missing", SortedTexts(missing))
       IN  /\ details' = details \o head \o <<closing>>
           /\ result' = StdResult(missing = {}, tv_sys_map.path, country_xmls, SortedTexts(all),
                                  SortedTexts(target), SortedTexts(allowed), SortedTexts(missing),
                                  details \o head \o <<closing>>)
    /\ pc' = "done"
    /\ UNCHANGED <<pureVars, callVars, flagVars, pidVars, prog, tree, standard, tv_sys_map, country_xmls,
                   idx, all_pairs>>

\* ------------------------------------------------------------------ check_pid1_rules
\* The row of one sys/*.ini whose Model_1 names the model.ini of the tree
\* (the file exists, no Board_1).  The model.ini of the model has no CLTV or
\* multi-standard key, and no document has a [VOLUME_CURVE_CFG] section or a
\* <TvSystem> element, so rules 3 and 4 add nothing and rule 5 finds no type.
DVB_CO == <<"D", "V", "B", "_", "C", "O">>

\* the body of `for name, tvsys, _cfg in parse_country_tv_system_file(cp)`:
\* the (countries, ctvs_map) after the entries of one document
RECURSIVE AddEntries(_, _, _)
AddEntries(entries, cs, map) ==
    IF entries = <<>> THEN [countries |-> cs, ctvs_map |-> map]
    ELSE LET e  == Head(entries)
             a2 == OrEmpty(NameToAlpha2(e.name))
         IN  IF a2 = <<>> THEN AddEntries(Tail(entries), cs, map)
             ELSE AddEntries(Tail(entries), cs \cup {a2},
                             IF e.sys = <<>> THEN map
                             ELSE [k \in DOMAIN map \cup {a2} |->
                                      IF k = a2 THEN StrUpper(Strip(e.sys, Whitespace)) ELSE map[k]])

\* sorted(xs) for a list of strings, duplicates kept
RECURSIVE SortedList(_)
SortedList(xs) ==
    IF xs = <<>> THEN <<>>
    ELSE LET i == CHOOSE j \in DOMAIN xs : \A h \in DOMAIN xs : ~StrLess(xs[h], xs[j])
         IN  <<xs[i]>> \o SortedList(SubSeq(xs, 1, i - 1) \o SubSeq(xs, i + 1, Len(xs)))

\* a violation: a message and what it lists
Problem(msg, items) == [msg |-> msg, items |-> items]

\* the class test of check_pid1_rules: tvs in {"DVB", "DVB_CO"}
IsDvbOrDvbCo(tvs) == tvs \in {DVB, DVB_CO}

\* the EU entries of ctvs_map whose system is neither DVB nor DVB_CO, as (code, system)
EuNonDvb(cs, map, allow) ==
    LET bad == {a2 \in (cs \cap allow) \cap DOMAIN map : map[a2] # <<>> /\ ~IsDvbOrDvbCo(map[a2])}
        keys == SortedTexts(bad)
    IN  [j \in 1..Len(keys) |-> <<keys[j], map[keys[j]]>>]

\* the violations rule 2 of check_pid1_rules appends
CountryProblems(cs, map, missing, allow, deny) ==
    (IF missing # <<>>
     THEN <<Problem("CountryTvSysMapXML missing", SortedList(missing))>>
     ELSE <<>>)
    \o (IF DOMAIN map # {}
        THEN (IF EuNonDvb(cs, map, allow) # <<>>
              THEN <<Problem("CountryTvSysMap EU non-DVB", EuNonDvb(cs, map, allow))>> ELSE <<>>)
        ELSE (IF cs \ allow # {} THEN <<Problem("non-European countries", SortedTexts(cs \ allow))>> ELSE <<>>)
             \o (IF cs \cap deny # {} THEN <<Problem("non-DVB countries", SortedTexts(cs \cap deny))>> ELSE <<>>))

\* check_pid1_rules from find_tvsysmap_files_from_model to the loop over the country maps
Pid1Start ==
    /\ prog = "pid1" /\ pc = "start"
    /\ tvmaps' = FindTvsysmapFilesFromModel(tree.model_ini, Root, FilePaths(tree))
    /\ cpaths' = Flatten([j \in 1..Len(tvmaps') |-> ResolveCountryTvsysmapPaths(ReadDoc(tree, tvmaps'[j]), Root)])
    /\ idx' = 1
    /\ countries' = {}
    /\ ctvs_paths' = <<>>
    /\ ctvs_missing' = <<>>
    /\ ctvs_map' = <<>>
    /\ problems' = <<>>
    /\ pc' = "loop"
    /\ UNCHANGED <<pureVars, callVars, flagVars, stdVars, prog, tree, result>>

\* one iteration of `for cp in cpaths` (over every system map in turn)
Pid1Doc ==
    /\ prog = "pid1" /\ pc = "loop" /\ idx <= Len(cpaths)
    /\ LET cp == cpaths[idx]
           st == AddEntries(ParseCountryTvSystemFile(ReadDoc(tree, cp)), countries, ctvs_map)
       IN  IF Exists(tree, cp)
           THEN /\ ctvs_paths' = Append(ctvs_paths, cp)
                /\ countries' = st.countries
                /\ ctvs_map' = st.ctvs_map
                /\ UNCHANGED ctvs_missing
           ELSE /\ ctvs_missing' = Append(ctvs_missing, cp)
                /\ UNCHANGED <<ctvs_paths, countries, ctvs_map>>
    /\ idx' = idx + 1
    /\ UNCHANGED <<pureVars, callVars, flagVars, stdVars, prog, pc, tree, tvmaps, cpaths, problems, result>>

\* the rest of the row: the fallback, the violations and the status
Pid1Finish ==
    /\ prog = "pid1" /\ pc = "loop" /\ idx > Len(cpaths)
    /\ countries' = IF countries = {} THEN GatherPidCountriesFromModel(tree, Root) ELSE countries
    /\ problems' = problems
                   \o CountryProblems(countries', ctvs_map, ctvs_missing,
                                      EU_ALLOWED_DEFAULT, NON_DVB_DENYLIST_DEFAULT)
                   \o (IF tvmaps # <<>> THEN <<Problem("TvSysMap has no <TvSystem type>", <<>>)>> ELSE <<>>)
    /\ result' = [returned        |-> TRUE,
                  countries       |-> SortedTexts(countries'),
                  tvsys_files     |-> SortedTexts({tvmaps[j] : j \in DOMAIN tvmaps}),
                  ctvs_files      |-> SortedTexts({ctvs_paths[j] : j \in DOMAIN ctvs_paths}),
                  ctvs_missing    |-> SortedTexts({ctvs_missing[j] : j \in DOMAIN ctvs_missing}),
                  ctvs_systems    |-> [j \in 1..Cardinality(DOMAIN ctvs_map) |->
                                          <<SortedTexts(DOMAIN ctvs_map)[j],
                                            ctvs_map[SortedTexts(DOMAIN ctvs_map)[j]]>>],
                  ctvs_eu_non_dvb |-> IF DOMAIN ctvs_map # {}
                                      THEN EuNonDvb(countries', ctvs_map, EU_ALLOWED_DEFAULT) ELSE <<>>,
                  status          |-> IF problems' # <<>> THEN "ERROR" ELSE "OK",
                  violations      |-> problems']
    /\ pc' = "done"
    /\ UNCHANGED <<pureVars, callVars, flagVars, stdVars, prog, tree, idx, tvmaps, cpaths, ctvs_paths,
                   ctvs_map, ctvs_missing>>

\* ------------------------------------------------------------------ file trees of the chain walk
SysMapRef == TvSysMapDir \o <<"s">>
CountryMapRefs == {TvSysMapDir \o <<"c">>, TvSysMapDir \o <<"d">>}
SysMapPath == ResolveFromRoot(Root, SysMapRef)

\* model.ini: no pointer, a pointer in [COUNTRY], a pointer outside any section,
\* a pointer and a COUNTRY_PATH in [COUNTRY]
WalkInis ==
    {<<>>,
     <<SectionLine(COUNTRY), IniLine(TvSysMapKey, SysMapRef)>>,
     <<IniLine(TvSysMapKey, SysMapRef)>>,
     <<SectionLine(COUNTRY), IniLine(TvSysMapKey, SysMapRef), IniLine(COUNTRY_PATH, OtherListRef)>>}

\* a system map that points at the given country maps
SysMapDoc(refs) ==
    <<Open(ROOT)>> \o [j \in 1..Len(refs) |-> Elem(CountryTvSysMapXML, refs[j])] \o <<Close(ROOT)>>

USA == <<"U", "S", "A">>
XX == <<"X", "X">>
ATSC == <<"A", "T", "S", "C">>

\* the block <COUNTRY_TVCONFIG_MAP><COUNTRY_NAME>name</COUNTRY_NAME><TV_SYSTEM>sys</TV_SYSTEM></...>
WalkBlockTokens(name, sys) ==
    <<Open(COUNTRY_TVCONFIG_MAP), Elem(COUNTRY_NAME, name), Elem(TV_SYSTEM, sys), Close(COUNTRY_TVCONFIG_MAP)>>

WalkBlockSet ==
    {WalkBlockTokens(FRANCE, DVB), WalkBlockTokens(FRANCE, ATSC),
     WalkBlockTokens(USA, ATSC), WalkBlockTokens(XX, DVB), WalkBlockTokens(USA, DVB_CO)}

\* the contents of the first country map, and the fewer contents of the second
WalkDocs == {ShapeDoc(sh, bs) : sh \in DocShapes, bs \in TextsUpTo(WalkBlockSet, MaxWalkBlocks)}
SecondDocs == {ShapeDoc("rooted", <<WalkBlockTokens(USA, DVB)>>), ShapeDoc("amp", <<>>)}

\* the DVB list file country/DVB.ini: absent, or one of these
DvbListPath == OsPathJoin(OsPathJoin(Root, <<"y">>), DVB \o <<".", "i", "n", "i">>)
ListLines == {<<>>, <<FRANCE \o <<",">>, <<"#", "U", "S", "A">>>>}

\* the file tree with the given system map (if any) and country maps (if
\* present); the list file a COUNTRY_PATH of model.ini names exists
WalkTree(ini, hasmap, refs, cdoc, cyes, ddoc, dyes, lists) ==
    LET cpath   == ResolveFromRoot(Root, TvSysMapDir \o <<"c">>)
        dpath   == ResolveFromRoot(Root, TvSysMapDir \o <<"d">>)
        named   == {ResolveFromRoot(Root, refs[j]) : j \in DOMAIN refs}
        present == {p \in named : (p = cpath /\ cyes) \/ (p = dpath /\ dyes)}
    IN  [model_ini |-> ini,
         xml       |-> IF ~hasmap THEN <<>>
                       ELSE [p \in {SysMapPath} \cup present |->
                                IF p = SysMapPath THEN SysMapDoc(refs)
                                ELSE IF p = cpath THEN cdoc ELSE ddoc],
         files     |-> IF \E i \in DOMAIN ini : ini[i].key = COUNTRY_PATH
                       THEN lists @@ (OtherListPath :> OtherListLines)
                       ELSE lists]

\* The trees of the walk: a system map (absent, or pointing at up to MaxPointers
\* country maps, each of them absent or present) and the list file.
WalkTrees ==
    {WalkTree(ini, hasmap, refs, cdoc, cyes, ddoc, dyes, lists) :
        ini \in WalkInis, hasmap \in BOOLEAN, refs \in TextsUpTo(CountryMapRefs, MaxPointers),
        cdoc \in WalkDocs, cyes \in BOOLEAN, ddoc \in SecondDocs, dyes \in BOOLEAN,
        lists \in FileMaps({DvbListPath}, ListLines)}

Init ==
    /\ PureIdle
    /\ prog \in {"std", "pid1"}
    /\ pc = "start"
    /\ tree \in WalkTrees
    /\ idx = 1
    /\ result = NoResult
    /\ CallIdle
    /\ FlagIdle /\ StdIdle /\ PidIdle

Next ==
    \/ StdStart \/ StdDoc \/ StdFinish
    \/ Pid1Start \/ Pid1Doc \/ Pid1Finish

Spec == Init /\ [][Next]_vars

\* ------------------------------------------------------------------ harness for the class tests
\* the TV_SYSTEM values the class tests are applied to, stripped and in capitals
SystemAlphabet == {"D", "V", "B", "_", "X", "2"}
SystemValues == TextsUpTo(SystemAlphabet, MaxSysLen) \cup {DVB_CO, ISDB, ATSC}

InitClass ==
    /\ fn = "none"
    /\ arg \in SystemValues
    /\ ret = <<>>
    /\ ProgIdle

\* the test of check_dvbs_and_satellite_flag on the TV_SYSTEM value arg
CallDvbsClassTest ==
    /\ fn = "none"
    /\ fn' = "dvbs.class"
    /\ ret' = InClass(arg, DVB)
    /\ UNCHANGED <<arg, progVars>>

\* the test of run_tv_standard_check --standard DVB on the TV_SYSTEM value arg
CallStdClassTest ==
    /\ fn = "none"
    /\ fn' = "std.class"
    /\ ret' = StartsWithStandard(arg, DVB)
    /\ UNCHANGED <<arg, progVars>>

\* the test of check_pid1_rules on the TV_SYSTEM value arg
CallPid1ClassTest ==
    /\ fn = "none"
    /\ fn' = "pid1.class"
    /\ ret' = IsDvbOrDvbCo(arg)
    /\ UNCHANGED <<arg, progVars>>

NextClass == CallDvbsClassTest \/ CallStdClassTest \/ CallPid1ClassTest

SpecClass == InitClass /\ [][NextClass]_vars

\* ------------------------------------------------------------------ harness for the text loaders
\* What a loader hands to its caller: an exception (raised is its name, or
\* None) or the text.  files maps each existing path to its characters; every
\* byte string decodes as latin-1, so no loader ends in a decode failure.
FileNotFoundError == <<"F", "i", "l", "e", "N", "o", "t", "F", "o", "u", "n", "d", "E", "r", "r", "o", "r">>
Outcome(raised, text) == [raised |-> raised, text |-> text]

\* check_dvbs_satellite_flag.py: _read_text
DvbsReadText(files, path) ==
    IF path \in DOMAIN files THEN Outcome(None, files[path]) ELSE Outcome(FileNotFoundError, <<>>)

\* HbbTV_Check.py: _read_text
HbbtvReadText(files, path) ==
    IF path \in DOMAIN files THEN Outcome(None, files[path]) ELSE Outcome(None, <<>>)

\* tv_multi_standard_validation.py: _read_text
StdReadText(files, path) ==
    IF path \in DOMAIN files THEN Outcome(None, files[path]) ELSE Outcome(None, <<>>)

\* the file at LinePath: absent, or holding one of the texts
InitLoad ==
    /\ fn = "none"
    /\ arg \in FileMaps({LinePath}, Lines)
    /\ ret = <<>>
    /\ ProgIdle

CallDvbsReadText ==
    /\ fn = "none"
    /\ fn' = "dvbs._read_text"
    /\ ret' = DvbsReadText(arg, LinePath)
    /\ UNCHANGED <<arg, progVars>>

CallHbbtvReadText ==
    /\ fn = "none"
    /\ fn' = "hbbtv._read_text"
    /\ ret' = HbbtvReadText(arg, LinePath)
    /\ UNCHANGED <<arg, progVars>>

CallStdReadText ==
    /\ fn = "none"
    /\ fn' = "std._read_text"
    /\ ret' = StdReadText(arg, LinePath)
    /\ UNCHANGED <<arg, progVars>>

NextLoad == CallDvbsReadText \/ CallHbbtvReadText \/ CallStdReadText

SpecLoad == InitLoad /\ [][NextLoad]_vars

\* ------------------------------------------------------------------ a second call on the same tree
\* The caller keeps the dictionary the first call returned and calls the same
\* script again with the same arguments; no file of the tree has changed.
Rerun ==
    /\ prog # "none" /\ pc = "done" /\ run = 1
    /\ first' = result
    /\ run' = 2
    /\ result' = NoResult
    /\ pc' = "start"
    /\ UNCHANGED <<pureVars, flagVars, stdVars, pidVars, prog, tree, idx>>

InitTwice == Init \/ InitFlag

NextTwice == Next \/ NextFlag \/ Rerun

SpecTwice == InitTwice /\ [][NextTwice]_vars


\* ================================================================== claims
FlagReturned == prog \in {"dvbs", "ginga"} /\ result.returned

RECURSIVE DigitSuffix(_)
DigitSuffix(line) ==
    IF line # <<>> /\ line[Len(line)] \in DigitChars
    THEN Append(DigitSuffix(SubSeq(line, 1, Len(line) - 1)), line[Len(line)])
    ELSE <<>>

\* int(digits)
RECURSIVE DecVal(_)
DecVal(digits) ==
    IF digits = <<>> THEN 0
    ELSE 10 * DecVal(SubSeq(digits, 1, Len(digits) - 1))
         + ((CHOOSE i \in DOMAIN DigitSeq : DigitSeq[i] = digits[Len(digits)]) - 1)

\* the count a summary line "<key> x<count>" carries, and its key
LineCount(line) == DecVal(DigitSuffix(line))
LineKey(line) == SubSeq(line, 1, Len(line) - Len(DigitSuffix(line)) - 2)

RECURSIVE SumCounts(_)
SumCounts(lines) == IF lines = <<>> THEN 0 ELSE LineCount(Head(lines)) + SumCounts(Tail(lines))

\* C4: with dedup, the failure summary holds exactly one line per distinct
\* (subject, reason) pair recorded, the line carries the number of times the pair
\* was recorded, and the counts sum to failed_count.
C4_DedupOneLinePerPairWithCount ==
    (FlagReturned /\ dedup) =>
        LET pairs == {failed_detail[i] : i \in DOMAIN failed_detail}
            lines == result.failed_files
        IN  /\ Len(lines) = Cardinality(pairs)
            /\ \A pr \in pairs :
                 \E j \in DOMAIN lines :
                    /\ lines[j] = FailedLine(pr[1], pr[2]) \o <<" ", "x">> \o DigitSuffix(lines[j])
                    /\ LineCount(lines[j]) = Cardinality({i \in DOMAIN failed_detail : failed_detail[i] = pr})
                    /\ \A h \in DOMAIN lines : LineKey(lines[h]) = LineKey(lines[j]) => h = j
            /\ SumCounts(lines) = result.failed_count

\* C4 witness: two blocks share one failing config path and are reported on one line.
C4_Witness ==
    /\ FlagReturned /\ dedup
    /\ result.failed_count = 2
    /\ Len(result.failed_files) = 1
    /\ LineCount(result.failed_files[1]) = 2

\* C5: every MISSING failure names a config path that does not exist, and every
\* NO_FLAG failure names an existing config file with no line that sets the flag;
\* nothing else is recorded under either reason.
C5_ReasonMatchesSituation ==
    prog \in {"dvbs", "ginga"} =>
        \A i \in DOMAIN failed_detail :
            LET subject == failed_detail[i][1]
                reason  == failed_detail[i][2]
                key     == IF prog = "dvbs" THEN KEY_DVBS ELSE KEY_GINGA
            IN  /\ reason \in {MISSING, NO_FLAG}
                /\ reason = MISSING => subject \notin DOMAIN tree.files
                /\ reason = NO_FLAG =>
                      /\ subject \in DOMAIN tree.files
                      /\ \A n \in DOMAIN tree.files[subject] : ~LineHasFlag(tree.files[subject][n], key)

\* C6: _file_flag_state succeeds on a file exactly when some line, its comment
\* stripped and its white space ignored, is key=0 and nothing more.
C6_ExactKeyValueLine ==
    LET bare == RemoveChars(StripComment(arg), Whitespace)
    IN  /\ fn = "dvbs._file_flag_state" => (ret.ok <=> bare = KEY_DVBS \o <<"=", "0">>)
        /\ fn = "ginga._file_flag_state" => (ret.ok <=> bare = KEY_GINGA \o <<"=", "0">>)

\* the four rules of the path resolver, in order
FourRules(root, reference) ==
    IF StartsWith(reference, TvconfigsPrefix)
    THEN OsPathNormpath(OsPathJoin(root, DropFirst(reference, Len(TvconfigsPrefix))))
    ELSE IF StartsWith(reference, <<".", "/">>) \/ StartsWith(reference, <<".", ".", "/">>)
    THEN OsPathNormpath(OsPathJoin(root, reference))
    ELSE IF StartsWith(reference, <<"/">>)
    THEN reference
    ELSE OsPathNormpath(OsPathJoin(root, reference))

\* C7: both path resolvers follow the four rules: /tvconfigs/ stripped and joined
\* to root, ./ and ../ joined to root, any other absolute reference returned
\* unchanged, anything else joined to root.
C7_ResolverFourRules ==
    fn \in {"_resolve_tvconfigs_path", "_resolve_from_root"} => ret = FourRules(Root, arg)

\* the normaliser of the claim: table first, then any two capital letters
\* outside the noise list, else None
NormalizeCountry(token) ==
    LET t == NormToken(token)
    IN  IF t \in DOMAIN NAME_TO_ALPHA2 THEN NAME_TO_ALPHA2[t]
        ELSE IF IsTwoUpper(t) /\ t \notin NoiseTokens THEN t
        ELSE None

\* C8: every normaliser of a country field maps a table name to its code, accepts
\* two capital letters outside the noise list as a code, and rejects the rest.
C8_NormalizerTableThenTwoLetters ==
    /\ fn = "_name_to_alpha2" => ret = NormalizeCountry(arg)
    /\ fn = "_extract_country_codes_from_text" =>
          ret = (IF NormalizeCountry(arg) = None THEN {} ELSE {NormalizeCountry(arg)})

\* ------------------------------------------------------------------ claims about the chain walk
Range(f) == {f[i] : i \in DOMAIN f}

\* the country names run_tv_standard_check reads from the country map at p
NamesIn(p) ==
    {e.country : e \in Range(ParseCountryTvPairs(ReadDoc(tree, p), p))}

\* the country codes check_pid1_rules reads from the country map at p
CodesIn(p) ==
    AddEntries(ParseCountryTvSystemFile(ReadDoc(tree, p)), {}, <<>>).countries

\* exactly one of the listed country maps does not exist
OneMissing(list) == Cardinality({p \in Range(list) : ~Exists(tree, p)}) = 1

\* C1: in both walkers, when one referenced country map is missing, it is
\* reported by path and the entries of every referenced country map that
\* exists are in the result, wherever the missing one sits in the list.
C1_MissingDocDoesNotStopWalk ==
    /\ (prog = "std" /\ result.returned /\ OneMissing(result.country_xmls)) =>
          \A p \in Range(result.country_xmls) :
             IF Exists(tree, p)
             THEN NamesIn(p) \subseteq Range(result.customer_countries_all)
             ELSE \E d \in Range(result.details) :
                     d.msg = "[ERROR] missing countryTvSysMap.xml" /\ d.about = p
    /\ (prog = "pid1" /\ result.returned /\ OneMissing(cpaths)) =>
          \A p \in Range(cpaths) :
             IF Exists(tree, p)
             THEN CodesIn(p) \subseteq Range(result.countries)
             ELSE /\ p \in Range(result.ctvs_missing)
                  /\ \E v \in Range(result.violations) :
                        v.msg = "CountryTvSysMapXML missing" /\ p \in Range(v.items)

\* model.ini declares a TvSysMap pointer, and the file it resolves to does not exist
PointerToMissingMap ==
    /\ ~Falsy(FindTvSysMap(tree.model_ini))
    /\ ~Exists(tree, ResolveFromRoot(Root, FindTvSysMap(tree.model_ini)))

\* C2: when model.ini declares a TvSysMap pointer whose target does not exist,
\* the result is a failure that names the resolved path of the system map and
\* has no entries.
C2_MissingSystemMapIsReported ==
    LET target == ResolveFromRoot(Root, FindTvSysMap(tree.model_ini))
    IN  (result.returned /\ PointerToMissingMap) =>
           IF prog = "std"
           THEN /\ ~result.passed
                /\ \E d \in Range(result.details) :
                      d.msg = "[ERROR] no TvSysMap file" /\ d.about.path = target
                /\ result.customer_countries_all = <<>>
           ELSE /\ result.status = "ERROR"
                /\ \E v \in Range(result.violations) :
                      v.msg = "CountryTvSysMapXML missing" /\ target \in Range(v.items)
                /\ result.countries = <<>>

\* the violations of a row that list countries
CountryMessages == {"non-European countries", "non-DVB countries"}

\* C9: every country name check_pid1_rules reads from an existing country map
\* and cannot turn into a code leaves a trace in the row: a violation lists it
\* or the countries column holds it.
C9_UnrecognizedCountryLeavesTrace ==
    (prog = "pid1" /\ result.returned) =>
       \A p \in {q \in Range(cpaths) : Exists(tree, q)} :
          \A e \in Range(ParseCountryTvSystemFile(ReadDoc(tree, p))) :
             NameToAlpha2(e.name) = None =>
                \/ NormToken(e.name) \in Range(result.countries)
                \/ \E v \in Range(result.violations) :
                      v.msg \in CountryMessages /\ NormToken(e.name) \in Range(v.items)

\* a document that no tier gets a block from: it does not parse, neither as
\* it is nor inside a wrapper, and the regular expression finds no block
Unreadable(doc) ==
    /\ ~ETfromstring(doc).ok
    /\ ~TryParseXmlAny(doc).ok
    /\ RegexBlocks(doc, 1, COUNTRY_TVCONFIG_MAP) = <<>>

\* the detail lines and violations that are about one file
PathMessages ==
    {"[ERROR] missing countryTvSysMap.xml", "[ERROR] no <CountryTvSysMapXML> target",
     "[ERROR] no list file"}

\* C10: when a walker has read a country map that no parsing tier gets a block
\* from, its result holds a note about that document.
C10_UnreadableDocumentIsNoted ==
    /\ (prog = "std" /\ result.returned) =>
          \A p \in {q \in Range(SubSeq(country_xmls, 1, idx - 1)) : Unreadable(ReadDoc(tree, q))} :
             \E d \in Range(result.details) : d.msg \in PathMessages /\ d.about = p
    /\ (prog = "pid1" /\ result.returned) =>
          \A p \in {q \in Range(cpaths) : Exists(tree, q) /\ Unreadable(ReadDoc(tree, q))} :
             \E v \in Range(result.violations) :
                v.msg = "CountryTvSysMapXML missing" /\ p \in Range(v.items)

\* ------------------------------------------------------------------ claims about empty documents
\* a document that parses, as it is or inside a wrapper, and holds no block
ZeroBlocks(doc) ==
    /\ WrappedBlocks(doc).ok
    /\ WrappedBlocks(doc).blocks = <<>>
    /\ StrictBlocks(doc).blocks = <<>>

\* the detail lines of run_tv_standard_check that are about the file p
NotesAbout(p) ==
    {d.msg : d \in {e \in Range(result.details) :
                       e.msg \in PathMessages \cup {"Country XML"} /\ e.about = p}}

\* C11: when run_tv_standard_check has read a country map that parses and holds
\* no block, it returns no entry for it, and what its result records about
\* that document differs from what it records about a document of the same
\* run that no tier can read.
C11_EmptyDocumentIsNoted ==
    (prog = "std" /\ result.returned) =>
       LET read == Range(SubSeq(country_xmls, 1, idx - 1))
       IN  \A p \in {x \in read : ZeroBlocks(ReadDoc(tree, x))} :
              /\ NamesIn(p) = {}
              /\ \A q \in {x \in read : Unreadable(ReadDoc(tree, x))} :
                    NotesAbout(p) # NotesAbout(q)

\* C11 in the flag checkers: a country map that parses and holds no block gives
\* no checked block and notes without a wrapped-parse failure, while a document
\* no tier can read gives notes with one.
C11_FlagNotesTellEmptyFromUnparseable ==
    (FlagReturned /\ XmlPath(Root) \in DOMAIN tree.xml) =>
       LET doc == tree.xml[XmlPath(Root)]
       IN  /\ ZeroBlocks(doc) =>
                /\ result.checked_count = 0 /\ result.failed_files = <<>>
                /\ result.notes # <<>>
                /\ WrappedParseFailed \notin Range(result.notes)
           /\ Unreadable(doc) => WrappedParseFailed \in Range(result.notes)

\* C12: on every document that parses as it is, tier 1 of _load_country_blocks
\* gives the blocks that tiers 2 and 3 give on the same text, a root that is
\* itself a block and blocks inside blocks included.
C12_StrictTierEqualsFallbackTiers ==
    (fn = "tier1" /\ ret.ok) => ret.blocks = FallbackBlocks(arg)

BlocksInOrder(list) ==
    Flatten([j \in 1..Len(list) |-> ParseCountryTvPairs(ReadDoc(tree, list[j]), list[j])])

\* the blocks check_pid1_rules turns into a code, as (code, system), in the same order
CodedBlocksInOrder(list) ==
    LET all  == Flatten([j \in 1..Len(list) |-> ParseCountryTvSystemFile(ReadDoc(tree, list[j]))])
        kept == AscSeq({j \in DOMAIN all : NameToAlpha2(all[j].name) # None /\ all[j].sys # <<>>})
    IN  [j \in 1..Len(kept) |->
            <<NameToAlpha2(all[kept[j]].name), StrUpper(Strip(all[kept[j]].sys, Whitespace))>>]

\* C14: when a walker has read every country map, its entries are the country
\* blocks of those documents, one entry per block, in document order and then
\* block order: none is moved, merged or overwritten.
C14_OneEntryPerBlockInOrder ==
    /\ (prog = "std" /\ result.returned /\ idx > Len(country_xmls)) =>
          result.customer_countries_all =
             [j \in 1..Len(BlocksInOrder(country_xmls)) |-> BlocksInOrder(country_xmls)[j].country]
    /\ (prog = "pid1" /\ result.returned) =>
          result.ctvs_systems = CodedBlocksInOrder(ctvs_paths)

\* ------------------------------------------------------------------ claims about the first link
\* model.ini holds no TvSysMap pointer at all
NoPointer == \A i \in DOMAIN tree.model_ini : ~MentionsTvSysMap(tree.model_ini[i])

\* C15: when model.ini holds no TvSysMap pointer, the walk stops there: the
\* result is a failure with a missing-system-map note and no entry, and no
\* system map or country map was read.
C15_NoPointerStopsTheWalk ==
    (result.returned /\ NoPointer) =>
       IF prog = "std"
       THEN /\ ~result.passed
            /\ \E d \in Range(result.details) : d.msg = "[ERROR] no TvSysMap file"
            /\ result.customer_countries_all = <<>>
            /\ country_xmls = <<>> /\ all_pairs = <<>>
       ELSE /\ result.status = "ERROR"
            /\ \E v \in Range(result.violations) : v.msg = "CountryTvSysMapXML missing"
            /\ result.countries = <<>>
            /\ tvmaps = <<>> /\ cpaths = <<>>

\* ------------------------------------------------------------------ claims about the rules
\* C16: every country code of a check_pid1_rules row is listed by an allow/deny
\* violation exactly when it is outside the allow-list or inside the deny-list,
\* whether or not the country maps gave a country -> TV_SYSTEM map.
C16_NotAllowedIffOutsideAllowOrInsideDeny ==
    (prog = "pid1" /\ result.returned) =>
       \A c \in Range(result.countries) :
          (c \notin EU_ALLOWED_DEFAULT \/ c \in NON_DVB_DENYLIST_DEFAULT)
             <=> \E v \in Range(result.violations) :
                    v.msg \in CountryMessages /\ c \in Range(v.items)

\* the class rule of the claim: the value is the class name, or starts with it and "_"
InClassRule(value, class) == value = class \/ StartsWith(value, class \o <<"_">>)

\* C17: each of the three class tests takes a TV_SYSTEM value for DVB-class
\* exactly when it is DVB or starts with DVB_: DVB_CO is, DVBX and DVB2 are not.
C17_ClassIsNameOrNameUnderscore ==
    fn \in {"dvbs.class", "std.class", "pid1.class"} => (ret <=> InClassRule(arg, DVB))

\* ------------------------------------------------------------------ claims about the loaders
Loaders == {"dvbs._read_text", "hbbtv._read_text", "std._read_text"}

\* C18: a loader called on a missing file hands its caller something no
\* existing file gives, an empty one included: it raises, and never returns
\* the empty string.
C18_MissingFileIsNotEmptyText ==
    (fn \in Loaders /\ LinePath \notin DOMAIN arg) =>
       /\ ret.raised # None
       /\ \A text \in Lines : ret # Outcome(None, text)

\* ------------------------------------------------------------------ claims about the list of the standard
\* <root>/country/<STANDARD>.ini
StandardListPath == OsPathJoin(OsPathJoin(Root, <<"y">>), standard \o <<".", "i", "n", "i">>)

\* the country maps the system map of the returned dictionary names
NamedCountryMaps == ResolveCountryTvMapXmls(ReadDoc(tree, result.tv_sys_map), Root)

\* run_tv_standard_check has returned, and the system map, the list of the
\* standard and every country map the system map names exist
StdDocumentsExist ==
    /\ prog = "std" /\ result.returned
    /\ result.tv_sys_map # <<>> /\ Exists(tree, result.tv_sys_map)
    /\ Exists(tree, StandardListPath)
    /\ \A j \in DOMAIN NamedCountryMaps : Exists(tree, NamedCountryMaps[j])

\* the countries of the named maps whose TV_SYSTEM starts with the standard
StandardCountries ==
    LET all == BlocksInOrder(NamedCountryMaps)
    IN  {all[j].country : j \in {h \in DOMAIN all : StartsWith(all[h].system, standard)}}

\* the returned lists are those of <root>/country/<STANDARD>.ini: allowed is
\* that list, missing is the standard's countries outside it, passed says that
\* nothing is missing
ComparedWithStandardList ==
    LET allowed == ParseCountryList(ReadLines(tree, StandardListPath))
    IN  /\ result.allowed_countries = SortedTexts(allowed)
        /\ result.missing = SortedTexts(StandardCountries \ allowed)
        /\ result.passed <=> (StandardCountries \ allowed = {})
        /\ result.passed <=> (result.missing = <<>>)

TargetBlocks ==
    LET class == IF prog = "dvbs" THEN DVB ELSE ISDB
    IN  {j \in DOMAIN blocks :
            InClass(StrUpper(Strip(OrEmpty(FindText(blocks[j], TV_SYSTEM)), Whitespace)), class)}

\* the TV_CONFIG of block j is empty, or names no file of the tree (nothing
\* is there, or what is there cannot be opened as a file)
BrokenReference(j) ==
    LET ref == Strip(OrEmpty(FindText(blocks[j], TV_CONFIG)), Whitespace)
    IN  ref = <<>> \/ ResolveTvconfigsPath(Root, ref) \notin DOMAIN tree.files

\* C20: when a flag checker is done with a list that holds a block of its class
\* with a broken TV_CONFIG reference, it has returned a result: every block of
\* the class was checked, each broken one is among the failures, and the
\* result is not passed.
C20_BrokenReferenceIsRecordedAndLoopGoesOn ==
    (prog \in {"dvbs", "ginga"} /\ pc = "done" /\ \E j \in TargetBlocks : BrokenReference(j)) =>
       /\ result.returned
       /\ result.checked_count = Cardinality(TargetBlocks)
       /\ result.failed_count >= Cardinality({j \in TargetBlocks : BrokenReference(j)})
       /\ ~result.passed

\* C20, the part that holds: when no call has ended in an exception, every
\* block of the class was checked and each broken reference is a failure.
C20_MissingOrEmptyReferenceIsRecorded ==
    (prog \in {"dvbs", "ginga"} /\ pc = "done" /\ result.returned) =>
       /\ result.checked_count = Cardinality(TargetBlocks)
       /\ result.failed_count >= Cardinality({j \in TargetBlocks : BrokenReference(j)})
       /\ (\E j \in TargetBlocks : BrokenReference(j)) => ~result.passed

\* ------------------------------------------------------------------ harness for the block parsers
MaxParseBlocks == 2

\* a tier a parser ran, and the number of blocks it found
Tier(name, found) == [tier |-> name, found |-> found]

\* the tiers _load_country_blocks runs on a document (check_dvbs_satellite_flag.py
\* and check_ginga_flag.py agree on them)
LoadCountryBlocksTiers(doc) ==
    LET n1 == Len(StrictBlocks(doc).blocks)
        n2 == Len(WrappedBlocks(doc).blocks)
    IN  <<Tier("strict", n1)>>
        \o (IF n1 > 0 THEN <<>>
            ELSE <<Tier("wrapped", n2)>>
                 \o (IF n2 > 0 THEN <<>> ELSE <<Tier("scan", Len(ScanBlocks(doc)))>>))

\* the tiers _parse_country_tv_pairs runs: the regex only after an exception
ParseCountryTvPairsTiers(doc) ==
    IF doc = <<>> THEN <<>>
    ELSE LET p == ETfromstring(doc)
         IN  IF p.ok THEN <<Tier("strict", Len(IterByTag(p.elems, COUNTRY_TVCONFIG_MAP, StrUpper)))>>
             ELSE <<Tier("strict", 0), Tier("scan", Len(RegexBlocks(doc, 1, COUNTRY_TVCONFIG_MAP)))>>

\* the tiers parse_country_tv_system_file runs: the wrapped parse only after
\* an exception, the regex only when neither parse gave a tree
ParseCountryTvSystemFileTiers(doc) ==
    LET p == ETfromstring(doc)
        w == TryParseXmlAny(doc)
    IN  IF p.ok THEN <<Tier("strict", Len(IterByTag(p.elems, COUNTRY_TVCONFIG_MAP, StrUpper)))>>
        ELSE IF w.ok
        THEN <<Tier("strict", 0), Tier("wrapped", Len(IterByTag(w.elems, COUNTRY_TVCONFIG_MAP, StrUpper)))>>
        ELSE <<Tier("strict", 0), Tier("wrapped", 0),
               Tier("scan", Len(RegexBlocks(doc, 1, COUNTRY_TVCONFIG_MAP)))>>

\* what the block loop of a flag checker reads of each block
FlagEntries(bs) ==
    [j \in 1..Len(bs) |->
        [sys |-> StrUpper(Strip(OrEmpty(FindText(bs[j], TV_SYSTEM)), Whitespace)),
         cfg |-> Strip(OrEmpty(FindText(bs[j], TV_CONFIG)), Whitespace)]]

\* a country block named name, with its block tag or its field tags in lower
\* case, as it is or inside a comment
ParseBlock(name, lowerBlock, lowerFields, commented) ==
    LET bt   == IF lowerBlock THEN StrLower(COUNTRY_TVCONFIG_MAP) ELSE COUNTRY_TVCONFIG_MAP
        f(t) == IF lowerFields THEN StrLower(t) ELSE t
        body == <<Open(bt), Elem(f(COUNTRY_NAME), name), Elem(f(TV_SYSTEM), DVB),
                  Elem(f(TV_CONFIG), <<"/", "T", "/", "a">>), Close(bt)>>
    IN  IF commented THEN <<CommentOpen>> \o body \o <<CommentClose>> ELSE body

ParseBlockSet ==
    {ParseBlock(name, lb, lf, c) :
        name \in {<<"F", "R", "A", "N", "C", "E">>, <<"U", "S", "A">>},
        lb \in BOOLEAN, lf \in BOOLEAN, c \in BOOLEAN}

ParseDocs == {ShapeDoc(sh, bs) : sh \in DocShapes, bs \in TextsUpTo(ParseBlockSet, MaxParseBlocks)}

InitParse ==
    /\ fn = "none" /\ arg \in ParseDocs /\ ret = <<>>
    /\ ProgIdle /\ CallIdle /\ FlagIdle /\ StdIdle /\ PidIdle

CallLoadCountryBlocksDvbs ==
    /\ fn = "none"
    /\ fn' = "dvbs._load_country_blocks"
    /\ ret' = [tiers   |-> LoadCountryBlocksTiers(arg),
               entries |-> FlagEntries(LoadCountryBlocksDvbs(arg, <<>>).blocks)]
    /\ UNCHANGED <<arg, progVars>>

CallLoadCountryBlocksGinga ==
    /\ fn = "none"
    /\ fn' = "ginga._load_country_blocks"
    /\ ret' = [tiers   |-> LoadCountryBlocksTiers(arg),
               entries |-> FlagEntries(LoadCountryBlocksGinga(arg, <<>>).blocks)]
    /\ UNCHANGED <<arg, progVars>>

CallParseCountryTvPairs ==
    /\ fn = "none"
    /\ fn' = "std._parse_country_tv_pairs"
    /\ ret' = [tiers   |-> ParseCountryTvPairsTiers(arg),
               entries |-> ParseCountryTvPairs(arg, XmlPath(Root))]
    /\ UNCHANGED <<arg, progVars>>

CallParseCountryTvSystemFile ==
    /\ fn = "none"
    /\ fn' = "pid1.parse_country_tv_system_file"
    /\ ret' = [tiers   |-> ParseCountryTvSystemFileTiers(arg),
               entries |-> ParseCountryTvSystemFile(arg)]
    /\ UNCHANGED <<arg, progVars>>

NextParse ==
    \/ CallLoadCountryBlocksDvbs \/ CallLoadCountryBlocksGinga
    \/ CallParseCountryTvPairs \/ CallParseCountryTvSystemFile

SpecParse == InitParse /\ [][NextParse]_vars

\* ------------------------------------------------------------------ claims about the parse tiers
ParserCalls ==
    {"dvbs._load_country_blocks", "ginga._load_country_blocks",
     "std._parse_country_tv_pairs", "pid1.parse_country_tv_system_file"}

\* the tiers ran in the order strict, wrapped, scan; every tier before the
\* last found no block; the last found one, or was the scan
FirstYieldingTier(tr) ==
    LET order == <<"strict", "wrapped", "scan">>
    IN  /\ Len(tr) \in 1..3
        /\ \A i \in DOMAIN tr : tr[i].tier = order[i]
        /\ \A i \in 1..(Len(tr) - 1) : tr[i].found = 0
        /\ tr[Len(tr)].found > 0 \/ Len(tr) = 3

\* C21: every block parser tries the strict parse, then the wrapped parse,
\* then the regex scan, and stops at the first tier that finds a block: a tier
\* that parses but finds no block does not end the search.
C21_TiersInOrderUntilFirstBlock ==
    (fn \in ParserCalls /\ arg # <<>>) => FirstYieldingTier(ret.tiers)

\* C21, the part that holds: _load_country_blocks of both flag checkers does so.
C21_FlagLoadersRunTiersInOrder ==
    (fn \in {"dvbs._load_country_blocks", "ginga._load_country_blocks"}) =>
       FirstYieldingTier(ret.tiers)

\* ------------------------------------------------------------------ harness for the model.ini pointer
MaxIniLines == 3

\* tv_multi_standard_validation_pid5.py: parse_model_ini_for_paths (the tvSysMap
\* half): the first line that, after _strip_comment, is `tvSysMap = "value"`
ParseModelIniForPaths(ini, root) ==
    LET hits == {i \in DOMAIN ini :
                    /\ ~IsCommentLine(ini[i])
                    /\ StrLower(Strip(ini[i].key, Whitespace)) = tvsysmap
                    /\ ini[i].val # None /\ ini[i].val # <<>>}
    IN  IF hits = {} THEN None
        ELSE ResolveTvconfigsPath(root, Strip(ini[CHOOSE i \in hits : \A h \in hits : i <= h].val, Whitespace))

\* the lines of the harness: two section headers, three pointers to three
\* files, and a pointer that is commented out
PANEL == <<"P", "A", "N", "E", "L">>
PointerLines ==
    {SectionLine(COUNTRY), SectionLine(PANEL),
     IniLine(TvSysMapKey, TvSysMapDir \o <<"s">>),
     IniLine(TvSysMapKey, <<"/", "T", "/", "m", "/", "s">>),
     IniLine(<<"#">> \o TvSysMapKey, <<"/", "T", "/", "S">>)}

InitIni ==
    /\ fn = "none" /\ arg \in TextsUpTo(PointerLines, MaxIniLines) /\ ret = <<>>
    /\ ProgIdle

CallFindTvSysMap ==
    /\ fn = "none"
    /\ fn' = "std._find_tv_sys_map_and_country_path"
    /\ ret' = FindTvSysMap(arg)
    /\ UNCHANGED <<arg, progVars>>

CallParseModelIniForPaths ==
    /\ fn = "none"
    /\ fn' = "pid5.parse_model_ini_for_paths"
    /\ ret' = ParseModelIniForPaths(arg, Root)
    /\ UNCHANGED <<arg, progVars>>

NextIni == CallFindTvSysMap \/ CallParseModelIniForPaths

SpecIni == InitIni /\ [][NextIni]_vars

\* ------------------------------------------------------------------ claims about the model.ini pointer
\* the lines of a model.ini that declare the pointer key and are no comment
Declarations(ini) ==
    AscSeq({i \in DOMAIN ini :
               /\ ~IsCommentLine(ini[i])
               /\ StartsWith(StrLower(Strip(ini[i].key, Whitespace)), tvsysmap)
               /\ ini[i].val # None /\ ini[i].val # <<>>})

\* the value of the first declaration
FirstDeclared(ini) == Strip(ini[Declarations(ini)[1]].val, Whitespace)

\* C22: when model.ini declares the system-map pointer on more than one
\* non-comment line, the value of the first such line is used, in whatever
\* section the lines stand.
C22_FirstDeclarationWins ==
    Len(Declarations(arg)) >= 2 =>
       /\ fn = "std._find_tv_sys_map_and_country_path" => ret = FirstDeclared(arg)
       /\ fn = "pid5.parse_model_ini_for_paths" => ret = ResolveTvconfigsPath(Root, FirstDeclared(arg))

\* C22, the part that holds: parse_model_ini_for_paths keeps the first declaration.
C22_Pid5FirstDeclarationWins ==
    (fn = "pid5.parse_model_ini_for_paths" /\ Len(Declarations(arg)) >= 2) =>
       ret = ResolveTvconfigsPath(Root, FirstDeclared(arg))

\* ------------------------------------------------------------------ claims about normalized paths
\* no segment of the path is "." or ".."
NoDotSegment(path) ==
    \A i \in DOMAIN Split(path, "/") : Split(path, "/")[i] \notin {<<".">>, <<".", ".">>}

\* C23: every path a path resolver returns is normalized: it has no "." and
\* no ".." segment, whatever the reference is.
C23_ResolvedPathHasNoDotSegment ==
    fn \in {"_resolve_tvconfigs_path", "ewbs._resolve_tvconfigs_path", "_resolve_from_root"} =>
       NoDotSegment(ret)

\* C23, the part that holds: a path that went through os.path.normpath or
\* Path.resolve has no such segment.
C23_JoinedPathHasNoDotSegment ==
    /\ fn = "_resolve_from_root" => NoDotSegment(ret)
    /\ (fn = "_resolve_tvconfigs_path" /\ (arg = <<>> \/ arg[1] # "/" \/ StartsWith(arg, TvconfigsPrefix))) =>
          NoDotSegment(ret)

\* ------------------------------------------------------------------ claims about the case of tag names
\* the document with every tag name in upper case
UpperTags(doc) == [i \in DOMAIN doc |-> [doc[i] EXCEPT !.t = StrUpper(@)]]

\* C24: a country map whose block tag or field tags are written in another
\* letter case gives every parser the entries, with the field values, of the
\* upper-case document.
C24_EntriesDoNotDependOnTagCase ==
    /\ fn = "dvbs._load_country_blocks" =>
          ret.entries = FlagEntries(LoadCountryBlocksDvbs(UpperTags(arg), <<>>).blocks)
    /\ fn = "ginga._load_country_blocks" =>
          ret.entries = FlagEntries(LoadCountryBlocksGinga(UpperTags(arg), <<>>).blocks)
    /\ fn = "std._parse_country_tv_pairs" =>
          ret.entries = ParseCountryTvPairs(UpperTags(arg), XmlPath(Root))
    /\ fn = "pid1.parse_country_tv_system_file" =>
          ret.entries = ParseCountryTvSystemFile(UpperTags(arg))

\* C24, the part that holds: the two walkers fold the case of every tag.
C24_WalkerEntriesDoNotDependOnTagCase ==
    /\ fn = "std._parse_country_tv_pairs" =>
          ret.entries = ParseCountryTvPairs(UpperTags(arg), XmlPath(Root))
    /\ fn = "pid1.parse_country_tv_system_file" =>
          ret.entries = ParseCountryTvSystemFile(UpperTags(arg))

\* ------------------------------------------------------------------ claims about the EU rule
\* the entries of the country maps check_pid1_rules has read, in reading order
EntriesRead ==
    Flatten([j \in 1..Len(ctvs_paths) |-> ParseCountryTvSystemFile(ReadDoc(tree, ctvs_paths[j]))])

\* the row lists country code a2 in an "EU non-DVB" violation
ListedAsEuNonDvb(a2) ==
    \E v \in Range(result.violations) :
       v.msg = "CountryTvSysMap EU non-DVB" /\ \E it \in Range(v.items) : it[1] = a2

\* C25: in a row of check_pid1_rules every entry of a country map whose
\* country is in the European allow-list and whose TV_SYSTEM is neither DVB
\* nor DVB_CO has its country listed in an "EU non-DVB" violation, whatever
\* other entries the maps hold for that country.
C25_EveryEuNonDvbEntryIsAViolation ==
    (prog = "pid1" /\ result.returned) =>
       \A j \in DOMAIN EntriesRead :
          LET a2  == NameToAlpha2(EntriesRead[j].name)
              sys == StrUpper(Strip(EntriesRead[j].sys, Whitespace))
          IN  (a2 \in EU_ALLOWED_DEFAULT /\ sys \notin {DVB, DVB_CO}) => ListedAsEuNonDvb(a2)

\* ------------------------------------------------------------------ claims about the parse notes
ParseNotes == {NormalParseFailed, WrappedNoBlocks, WrappedParseFailed, NoBlocksAfterAll, NoBlocksFound}

\* C26: when a tier of the block parser has found a block, the result of the
\* flag checker holds no parse note: an earlier tier that failed leaves no
\* trace, and the recovered document alone cannot make the check fail.
C26_NoParseNoteWhenATierFoundBlocks ==
    (prog \in {"dvbs", "ginga"} /\ result.returned /\ blocks # <<>>) =>
       /\ \A i \in DOMAIN result.notes : result.notes[i] \notin ParseNotes
       /\ result.failed_count = 0 => (result.passed \/ (prog = "dvbs" /\ ~has_dvbs_null))

\* C26, the part that holds: check_dvbs_and_satellite_flag keeps no parse note
\* of a recovered document.
C26_DvbsNoParseNoteWhenATierFoundBlocks ==
    (prog = "dvbs" /\ result.returned /\ blocks # <<>>) =>
       \A i \in DOMAIN result.notes : result.notes[i] \notin ParseNotes

\* ------------------------------------------------------------------ claims about the counters
\* the class of the running flag checker
TargetClass == IF prog = "dvbs" THEN DVB ELSE ISDB

\* the blocks among the first n whose TV_SYSTEM is the class or starts with class + "_"
ClassBlocksUpTo(n) ==
    {j \in 1..n :
        InClassRule(StrUpper(Strip(OrEmpty(FindText(blocks[j], TV_SYSTEM)), Whitespace)), TargetClass)}

\* C27: while a flag checker loops over the blocks and in the result it
\* returns, checked_count is the number of blocks of the target class passed
\* so far, and the failures are no more than that: a block of the class adds
\* at most one failure, a block of another class changes neither counter.
C27_CheckedCountsClassBlocks ==
    /\ (prog \in {"dvbs", "ginga"} /\ pc = "loop") =>
          /\ checked_count = Cardinality(ClassBlocksUpTo(idx - 1))
          /\ Len(failed_detail) <= checked_count
    /\ (prog \in {"dvbs", "ginga"} /\ result.returned) =>
          /\ result.checked_count = Cardinality(ClassBlocksUpTo(Len(blocks)))
          /\ result.failed_count = Len(failed_detail)
          /\ result.failed_count <= result.checked_count

\* C27 witness: a result over a block of the class and a block of another
\* class: one block checked, and that one failed.
C27_Witness ==
    /\ prog \in {"dvbs", "ginga"} /\ result.returned
    /\ Len(blocks) = 2 /\ Cardinality(ClassBlocksUpTo(2)) = 1
    /\ result.checked_count = 1 /\ result.failed_count = 1

\* ------------------------------------------------------------------ claims about the codes fed back
\* C29: every code the table or the default European allow-list holds is
\* accepted unchanged when it is fed back as a two-letter token: the extractor
\* returns exactly that code.
C29_OutputCodesAreAcceptedUnchanged ==
    (fn = "_extract_country_codes_from_text" /\ arg \in OutputCodes) => ret = {arg}

\* the same with the two codes the noise list holds left out: this holds
C29_OutputCodesOutsideNoiseAreAcceptedUnchanged ==
    (fn = "_extract_country_codes_from_text" /\ arg \in OutputCodes \ NoiseTokens) => ret = {arg}

\* ------------------------------------------------------------------ claims about commented-out blocks
\* token j of the document lies inside an XML comment
InsideComment(doc, j) ==
    \E i \in 1..(j - 1) :
        doc[i].k = "copen" /\ \A m \in (i + 1)..(j - 1) : doc[m].k # "cclose"

\* the country blocks of the document that open outside every comment
BlocksOutsideComments(doc) ==
    {j \in DOMAIN doc :
        /\ doc[j].k = "open"
        /\ StrUpper(doc[j].t) = COUNTRY_TVCONFIG_MAP
        /\ ~InsideComment(doc, j)}

\* C28: no parser returns a block that appears only inside an XML comment:
\* what it returns is no more than the blocks outside the comments.
C28_CommentedBlockIsNeverReturned ==
    fn \in ParserCalls => Len(ret.entries) <= Cardinality(BlocksOutsideComments(arg))

\* C28, the part that holds: a parser whose first tier found a block (the
\* strict parse, which drops the comments) returns no commented-out block.
C28_StrictTierReturnsNoCommentedBlock ==
    (fn \in ParserCalls /\ arg # <<>> /\ ret.tiers[1].found > 0) =>
        Len(ret.entries) <= Cardinality(BlocksOutsideComments(arg))

\* ------------------------------------------------------------------ the encoding chain
MaxBytes == 3

\* the bytes file contents are made of: "A", a continuation byte, lead bytes
\* of UTF-8, high bytes of surrogates, the two bytes of a byte order mark
ByteAlphabet == {65, 169, 195, 216, 220, 254, 255}

FileContents == TextsUpTo(ByteAlphabet, MaxBytes)

\* bytes from the i-th on
BytesFrom(b, i) == SubSeq(b, i, Len(b))

\* b[i] is a continuation byte of UTF-8
IsCont(b, i) == i <= Len(b) /\ b[i] \in 128..191

\* the ways an attempt to read a file under an encoding ends
Decoded            == "ok"
UnicodeDecodeError == "UnicodeDecodeError"
UnicodeError       == "UnicodeError"

\* open(path, "r", encoding="utf-8").read() raises no UnicodeDecodeError
RECURSIVE Utf8Decodes(_)
Utf8Decodes(b) ==
    IF b = <<>> THEN TRUE
    ELSE LET c == b[1]
         IN  IF c < 128 THEN Utf8Decodes(BytesFrom(b, 2))
             ELSE IF c \in 194..223 THEN IsCont(b, 2) /\ Utf8Decodes(BytesFrom(b, 3))
             ELSE IF c \in 224..239
             THEN /\ IsCont(b, 2) /\ IsCont(b, 3)
                  /\ (c = 224 => b[2] >= 160)
                  /\ (c = 237 => b[2] <= 159)
                  /\ Utf8Decodes(BytesFrom(b, 4))
             ELSE IF c \in 240..244
             THEN /\ IsCont(b, 2) /\ IsCont(b, 3) /\ IsCont(b, 4)
                  /\ (c = 240 => b[2] >= 144)
                  /\ (c = 244 => b[2] <= 143)
                  /\ Utf8Decodes(BytesFrom(b, 5))
             ELSE FALSE

\* open(path, "r", encoding="latin-1").read(): every byte is a character
Latin1Decodes(b) == TRUE

\* the 16-bit units of an even number of bytes
Utf16Units(b, bigEndian) ==
    [i \in 1..(Len(b) \div 2) |->
        IF bigEndian THEN 256 * b[2 * i - 1] + b[2 * i] ELSE b[2 * i - 1] + 256 * b[2 * i]]

\* every surrogate of the units stands in a pair
RECURSIVE SurrogatesPaired(_)
SurrogatesPaired(u) ==
    IF u = <<>> THEN TRUE
    ELSE IF u[1] \in 55296..56319
    THEN Len(u) >= 2 /\ u[2] \in 56320..57343 /\ SurrogatesPaired(SubSeq(u, 3, Len(u)))
    ELSE IF u[1] \in 56320..57343 THEN FALSE
    ELSE SurrogatesPaired(Tail(u))

\* open(path, "r", encoding="utf-16").read(): a byte order mark picks the byte
\* order (little-endian without one); ill-formed units are a
\* UnicodeDecodeError; well-formed text with no mark is the stream decoder's
\* UnicodeError "UTF-16 stream does not start with BOM"
Utf16Outcome(b) ==
    LET bom  == Len(b) >= 2 /\ SubSeq(b, 1, 2) \in {<<255, 254>>, <<254, 255>>}
        body == IF bom THEN BytesFrom(b, 3) ELSE b
    IN  IF ~(Len(body) % 2 = 0 /\ SurrogatesPaired(Utf16Units(body, bom /\ b[1] = 254)))
        THEN UnicodeDecodeError
        ELSE IF bom \/ b = <<>> THEN Decoded
        ELSE UnicodeError

\* the chain of both readers
Encodings == <<"utf-8", "latin-1", "utf-16">>

\* how the attempt to read the bytes under the encoding ends
AttemptOutcome(enc, b) ==
    CASE enc = "utf-8"   -> IF Utf8Decodes(b) THEN Decoded ELSE UnicodeDecodeError
      [] enc = "latin-1" -> IF Latin1Decodes(b) THEN Decoded ELSE UnicodeDecodeError
      [] enc = "utf-16"  -> Utf16Outcome(b)

\* the encodings the loop `for enc in ("utf-8", "latin-1", "utf-16")` tries
\* on a file of these bytes: `except UnicodeDecodeError: continue` goes on to
\* the next, any other end of an attempt ends the loop
RECURSIVE Attempts(_, _)
Attempts(b, i) ==
    IF i > Len(Encodings) THEN <<>>
    ELSE <<Encodings[i]>>
         \o (IF AttemptOutcome(Encodings[i], b) = UnicodeDecodeError THEN Attempts(b, i + 1) ELSE <<>>)

\* how the last attempt of the loop ended
LastOutcome(b) == LET a == Attempts(b, 1) IN AttemptOutcome(a[Len(a)], b)

\* the encoding the loop returns under, "none" when no attempt decoded
Winner(b) ==
    LET a == Attempts(b, 1)
    IN  IF LastOutcome(b) = Decoded THEN a[Len(a)] ELSE "none"

\* check_dvbs_satellite_flag.py, check_ginga_flag.py: _read_text on an existing
\* file: after the loop, open(path, "r") reads with the default encoding
\* (UTF-8) and lets its UnicodeDecodeError out
ReadTextChain(b) ==
    LET exhausted == LastOutcome(b) = UnicodeDecodeError
    IN  [attempts |-> Attempts(b, 1),
         winner   |-> IF exhausted /\ Utf8Decodes(b) THEN "default" ELSE Winner(b),
         raises   |-> IF exhausted THEN ~Utf8Decodes(b) ELSE LastOutcome(b) = UnicodeError]

\* _file_flag_state on an existing file: after the loop, (False, "NO_FLAG");
\* only FileNotFoundError is caught around the loop
FileFlagStateEncoding(b) ==
    [attempts |-> Attempts(b, 1), winner |-> Winner(b), raises |-> LastOutcome(b) = UnicodeError]

InitDecode ==
    /\ fn = "none" /\ arg \in FileContents /\ ret = <<>>
    /\ ProgIdle

CallReadTextChain ==
    /\ fn = "none"
    /\ fn' = "_read_text"
    /\ ret' = ReadTextChain(arg)
    /\ UNCHANGED <<arg, progVars>>

CallFileFlagStateEncoding ==
    /\ fn = "none"
    /\ fn' = "_file_flag_state.encoding"
    /\ ret' = FileFlagStateEncoding(arg)
    /\ UNCHANGED <<arg, progVars>>

NextDecode == CallReadTextChain \/ CallFileFlagStateEncoding

SpecDecode == InitDecode /\ [][NextDecode]_vars

\* ------------------------------------------------------------------ claims about the encoding chain
DecodeCalls == {"_read_text", "_file_flag_state.encoding"}

\* C30: when a reader has run, each encoding of the chain wins for some file
\* content, the utf-16 attempt among them, and some content exhausts all three
\* and ends in an error.
C30_EveryEncodingCanWin ==
    fn \in DecodeCalls =>
        /\ \A i \in DOMAIN Encodings : \E b \in FileContents : ReadTextChain(b).winner = Encodings[i]
        /\ \E b \in FileContents : ReadTextChain(b).raises

\* C30, what holds instead: utf-8 or latin-1 wins for every content; utf-16
\* is never tried and no read ends in an error.
C30_Latin1EndsTheChain ==
    fn \in DecodeCalls =>
        /\ ret.winner \in {"utf-8", "latin-1"}
        /\ ret.winner = "latin-1" <=> ~Utf8Decodes(arg)
        /\ Len(ret.attempts) <= 2
        /\ ~ret.raises

====
